---- MODULE Spec2Model ----
(***************************************************************************)
(* IKobo: annotation-to-context resolution, grouping and Markdown          *)
(* rendering (src/kobo.py, src/web.py, src/s_bookmarks.py,                 *)
(* src/c_bookmarks.py), modelled as the state machine of the driver        *)
(* s_bookmarks.main for one volume.                                        *)
(*                                                                         *)
(* A member document is a sequence of nodes in document (pre-)order.       *)
(* Node 0 is the root container (div#book-inner); nodes -1 .. -RootDepth   *)
(* are its ancestors up to the parsed document object, which has no        *)
(* parent.  Strings are sequences of tokens: the characters the code       *)
(* inspects ("#", "\\", ".", the marker characters) are tokens of their    *)
(* own, a run of other characters may be one token.                        *)
(***************************************************************************)
EXTENDS Integers, Sequences, FiniteSets, TLC

VARIABLES
    doc,                    \* the parsed member document: node -> record
    rows,                   \* bookmark_rows, in table order
    row_i,                  \* index of the next row of main's first loop
    kepubs,                 \* main's kepubs, in insertion order: volume_id
                            \* and pairs of every opened volume
    pairs,                  \* kepub.pairs of the volume main is at
    volume_i,               \* index of the next volume of main's second loop
    grouped_pairs,          \* the result of _group_bookmarks
    group_i,                \* index of the next group of main's render loop
    containers_md,          \* format_args' containers_md of the last group
    unquoted_pair_indices,  \* Formatting.unquoted_pair_indices of that call
    removed_log,            \* pair indices in the order format_span removed them
    written,                \* what format_args rendered for the groups of the
                            \* volume that main has written so far
    files,                  \* the output files main has opened, in order, each
                            \* with what was written to it
    chapter,                \* main's chapter: that of the group before
    pc,                     \* "resolve", "render", "done", or where the run
                            \* failed: "resolve_failed", "group_failed",
                            \* "render_failed"
    printed,                \* the messages main has printed, in order
    not_kepubs,             \* main's set of volume ids that are no KEPUB
    dont_exist,             \* main's set of volume ids whose file is missing
    handle,                 \* a KEPUB handle: its archive, caches and call log
    call,                   \* the arguments of a call of a function
    result,                 \* what the call returned
    my_words                \* the run of s_my_words.main: where it is, its
                            \* locals and the requests it has sent

vars == <<doc, rows, row_i, kepubs, pairs, volume_i, grouped_pairs, group_i,
          containers_md, unquoted_pair_indices, removed_log, written, files,
          chapter, pc, printed, not_kepubs, dont_exist, handle, call, result,
          my_words>>

\* What only the first loop of main touches
log == <<printed, not_kepubs, dont_exist>>

\* What main's loops over one volume never touch
others == <<handle, call, result, my_words>>

\* What only main's loops over the volumes touch
volumes == <<kepubs, volume_i, files, chapter>>

\* No handle is open, no call is made
Idle == [op |-> "none"]

----------------------------------------------------------------------------
(* Bounds of the input families.                                           *)

RootDepth == 3          \* ancestors of the root container: body, html, document

NoId == <<"(no id)">>   \* the element has no id attribute

Min(a, b) == IF a <= b THEN a ELSE b
Max(a, b) == IF a >= b THEN a ELSE b

Last(s) == s[Len(s)]

----------------------------------------------------------------------------
(* web.py: the tree accessor.                                              *)

Nodes == 1..Len(doc)

\* Element.name
Name(n) == IF n = 0 THEN "div" ELSE IF n < 0 THEN "ancestor" ELSE doc[n].name

\* Tag.sourceline
Sourceline(n) == doc[n].sourceline

\* Tag.sourcepos: the column; nodes are numbered in document order and lines
\* never decrease along it, so (sourceline, n) orders nodes as
\* (sourceline, sourcepos) does.
Sourcepos(n) == n

\* Tag.parent of the parsed document object: None
None == 0 - RootDepth - 1

\* Tag.parent
Parent(n) ==
    IF n > 0 THEN doc[n].parent
    ELSE IF n >= 0 - RootDepth THEN n - 1
    ELSE None

\* Element.children: the element children, in order
Children(n) == SelectSeq([k \in 1..Len(doc) |-> k], LAMBDA k: doc[k].parent = n)

\* Element.__eq__: self.tag == other.tag, which compares tags by value:
\* same name, same attributes, same contents.  The root container and its
\* ancestors contain every node, so they equal only themselves.
RECURSIVE TagEq(_, _)
TagEq(a, b) ==
    IF a = b THEN TRUE
    ELSE IF a <= 0 \/ b <= 0 THEN FALSE
    ELSE /\ doc[a].name = doc[b].name
         /\ doc[a].id = doc[b].id
         /\ doc[a].href = doc[b].href
         /\ doc[a].text = doc[b].text
         /\ Len(Children(a)) = Len(Children(b))
         /\ \A k \in 1..Len(Children(a)) : TagEq(Children(a)[k], Children(b)[k])

\* Element.__eq__: self.tag == other.tag
ElemEq(a, b) == TagEq(a, b)

\* Element.find_all_with_id: every descendant of the root with this tag name
\* and this id attribute, in document order
FindAllWithId(tag, id) ==
    SelectSeq([k \in 1..Len(doc) |-> k],
              LAMBDA k: <<doc[k].name>> = tag /\ doc[k].id = id)

\* Tag.text: the strings of the element and of its descendants
RECURSIVE TagText(_)
RECURSIVE TagTexts(_, _)
TagTexts(kids, k) ==
    IF k > Len(kids) THEN << >> ELSE TagText(kids[k]) \o TagTexts(kids, k + 1)
TagText(n) == doc[n].text \o TagTexts(Children(n), 1)

\* str.strip(): without the leading and the trailing whitespace
Whitespace == {" ", "\n"}
RECURSIVE LStrip(_)
LStrip(s) ==
    IF Len(s) > 0 /\ s[1] \in Whitespace THEN LStrip(Tail(s)) ELSE s
RECURSIVE RStrip(_)
RStrip(s) ==
    IF Len(s) > 0 /\ s[Len(s)] \in Whitespace
    THEN RStrip(SubSeq(s, 1, Len(s) - 1)) ELSE s
Strip(s) == RStrip(LStrip(s))

\* Element.text = tag.text.strip()
ElementText(n) == Strip(TagText(n))

\* Element.prev_siblings(add_self=True): the element, then the elements
\* before it under the same parent, the nearest first
RECURSIVE Reverse(_)
Reverse(s) == IF Len(s) = 0 THEN << >> ELSE Reverse(Tail(s)) \o <<s[1]>>
PrevSiblings(n) ==
    Reverse(SelectSeq(Children(Parent(n)), LAMBDA m : m <= n))

----------------------------------------------------------------------------
(* kobo.py: the position-reference parser and the context resolver.        *)

\* A failed assertion
Failed == [ok |-> FALSE]

\* _format_path: os.path.join(VOLUME, rel_path) when os.name is 'posix',
\* os.path.join(VOLUME, *rel_path.split('/')) otherwise.  VOLUME is a bare
\* drive; on POSIX an absolute rel_path replaces it, on the other branch the
\* components follow the drive and are joined by a backslash, an empty
\* component adding nothing but the separator.
VOLUME == <<"E:">>

\* rel_path.split('/')
RECURSIVE Split(_, _)
Split(s, part) ==
    IF Len(s) = 0 THEN <<part>>
    ELSE IF s[1] = "/" THEN <<part>> \o Split(Tail(s), << >>)
    ELSE Split(Tail(s), Append(part, s[1]))

\* ntpath.join of a bare drive with components free of separators
RECURSIVE NtJoin(_, _, _)
NtJoin(path, parts, k) ==
    IF k > Len(parts) THEN path
    ELSE NtJoin((IF Len(path) > 0 /\ path[Len(path)] # "\\"
                 THEN Append(path, "\\") ELSE path) \o parts[k], parts, k + 1)

FormatPath(rel_path, posix) ==
    IF posix
    THEN IF Len(rel_path) > 0 /\ rel_path[1] = "/" THEN rel_path
         ELSE VOLUME \o <<"/">> \o rel_path
    ELSE VOLUME \o NtJoin(<< >>, Split(rel_path, << >>), 1)

\* The position of the first "!!" of s at or after k, 0 when there is none
RECURSIVE ScanBangs(_, _)
ScanBangs(s, k) ==
    IF k >= Len(s) THEN 0
    ELSE IF s[k] = "!" /\ s[k + 1] = "!" THEN k
    ELSE ScanBangs(s, k + 1)

\* A lazy first group: the first "!!" of s
LazyBangs(s, k) == ScanBangs(s, 1)

\* The position of the last "!!" of s at or before k, 0 when there is
\* none: the greedy first group of CONTENT_ID_REGEX
RECURSIVE LastBangs(_, _)
LastBangs(s, k) ==
    IF k < 1 THEN 0
    ELSE IF s[k] = "!" /\ s[k + 1] = "!" THEN k
    ELSE LastBangs(s, k - 1)

\* The position of the first "#" of s, 0 when there is none: the lazy
\* second group
RECURSIVE FirstHash(_, _)
FirstHash(s, k) ==
    IF k > Len(s) THEN 0
    ELSE IF s[k] = "#" THEN k
    ELSE FirstHash(s, k + 1)

\* The element id of a reference without "#...": None
NoElementId == <<"(None)">>

\* s holds a line break before its last character: "." matches no line
\* break and "$" matches at the end or before a final line break
BrokenLine(s) == \E k \in 1..Len(s) - 1 : s[k] = "\n"

\* s without a final line break
Chomp(s) ==
    IF Len(s) > 0 /\ s[Len(s)] = "\n" THEN SubSeq(s, 1, Len(s) - 1) ELSE s

\* ContentID.parse: CONTENT_ID_REGEX = ^/mnt/onboard/(.*)!!(.*?)(?:#(.*))?$
ContentIdParse(content_id, posix) ==
    IF Len(content_id) = 0 \/ content_id[1] # "/mnt/onboard/" THEN Failed
    ELSE IF BrokenLine(content_id) THEN Failed
    ELSE LET body == Chomp(Tail(content_id))
             b == LastBangs(body, Len(body) - 1)
         IN  IF b = 0 THEN Failed
             ELSE LET rest == SubSeq(body, b + 2, Len(body))
                      h == FirstHash(rest, 1)
                  IN  [ok |-> TRUE,
                       file |-> FormatPath(SubSeq(body, 1, b - 1), posix),
                       xhtml |-> IF h = 0 THEN rest ELSE SubSeq(rest, 1, h - 1),
                       element_id |-> IF h = 0 THEN NoElementId
                                      ELSE SubSeq(rest, h + 1, Len(rest))]

\* The position of the last "#" of a container path, 0 when there is none:
\* CONTAINER_PATH_REGEX = ^(.*)#(.*)$ with a greedy first group
RECURSIVE LastHash(_, _)
LastHash(path, k) ==
    IF k = 0 THEN 0
    ELSE IF path[k] = "#" THEN k
    ELSE LastHash(path, k - 1)

\* id.replace('\\.', '.'): every "\." becomes ".", scanning left to right
RECURSIVE Unescape(_)
Unescape(s) ==
    IF Len(s) = 0 THEN << >>
    ELSE IF Len(s) >= 2 /\ s[1] = "\\" /\ s[2] = "."
         THEN <<".">> \o Unescape(SubSeq(s, 3, Len(s)))
         ELSE <<s[1]>> \o Unescape(SubSeq(s, 2, Len(s)))

\* The loop of BookmarkContext._extract (kobo.py:260-261): climbs from
\* `container` until the parent is the root container.  Element.parent()
\* asserts that the tag has a parent: None stands for that failure.
RECURSIVE Climb(_)
Climb(container) ==
    LET parent == Parent(container)
    IN  IF container = None \/ parent = None THEN None
        ELSE IF ~ElemEq(parent, 0) THEN Climb(parent)
        ELSE container

\* elements[0] or elements[-1]
PickFirstOnly(elements, grab_first_or_last) == elements[1]
Pick(elements, grab_first_or_last) ==
    IF grab_first_or_last THEN elements[1] ELSE Last(elements)

\* BookmarkContext._extract: the anchor element and its top-level container
ExtractAnchor(container_path, grab_first_or_last) ==
    LET h == LastHash(container_path, Len(container_path))
    IN  IF h = 0 THEN Failed
        ELSE LET tag == SubSeq(container_path, 1, h - 1)
                 id == Unescape(SubSeq(container_path, h + 1, Len(container_path)))
                 elements == FindAllWithId(tag, id)
             IN  IF Len(elements) = 0 THEN Failed
                 ELSE LET element == Pick(elements, grab_first_or_last)
                          container == Climb(Parent(element))
                      IN  IF container = None THEN Failed
                          ELSE [ok |-> TRUE, element |-> element,
                                container |-> container]

\* while containers[0] != start_parent: del containers[0]
\* (an IndexError once the list is empty)
RECURSIVE DropBefore(_, _)
DropBefore(containers, start_parent) ==
    IF Len(containers) = 0 THEN Failed
    ELSE IF ~ElemEq(containers[1], start_parent)
         THEN DropBefore(Tail(containers), start_parent)
         ELSE [ok |-> TRUE, list |-> containers]

\* for i in reversed(range(1, len(containers))): break at end_parent, else
\* del containers[i]
RECURSIVE DropAfter(_, _, _)
DropAfterNever(containers, end_parent, k) == containers
DropAfter(containers, end_parent, k) ==
    IF k < 2 THEN containers
    ELSE IF ElemEq(containers[k], end_parent) THEN containers
    ELSE DropAfter(SubSeq(containers, 1, k - 1), end_parent, k - 1)

\* The container range of BookmarkContext.extract (kobo.py:189-197)
ContainerRange(start_parent, end_parent) ==
    LET from == DropBefore(Children(0), start_parent)
    IN  IF ~from.ok THEN Failed
        ELSE [ok |-> TRUE, list |-> DropAfter(from.list, end_parent, Len(from.list))]

\* HEADING_REGEX = ^h(\d)$ on the element name: the digit, NoLevel when the
\* name does not match
HeadingNames == <<"h0", "h1", "h2", "h3", "h4", "h5", "h6", "h7", "h8", "h9">>
NoLevel == 0 - 2
HeadingLevel(name) ==
    IF \E k \in 1..Len(HeadingNames) : HeadingNames[k] = name
    THEN (CHOOSE k \in 1..Len(HeadingNames) : HeadingNames[k] = name) - 1
    ELSE NoLevel

\* level = -1 of the fallback
Sentinel == 0 - 1

\* The loop over the siblings (kobo.py:202-209): the first element seen for
\* a level stays
RECURSIVE HeadingsScan(_, _, _)
HeadingsScan(siblings, k, headings) ==
    IF k > Len(siblings) THEN headings
    ELSE LET level == HeadingLevel(Name(siblings[k]))
         IN  IF level = NoLevel \/ level \in DOMAIN headings
             THEN HeadingsScan(siblings, k + 1, headings)
             ELSE HeadingsScan(siblings, k + 1,
                               (level :> siblings[k]) @@ headings)

\* The fallback loop (kobo.py:212-216): it breaks at the first child with
\* text; when it runs to its end `child` is the last child
RECURSIVE FallbackChild(_, _)
FallbackChild(children, k) ==
    IF k = Len(children) THEN children[k]
    ELSE IF Len(Strip(ElementText(children[k]))) # 0 THEN children[k]
    ELSE FallbackChild(children, k + 1)

\* The heading hierarchy of BookmarkContext.extract (kobo.py:199-219)
Headings(containers) ==
    LET headings == HeadingsScan(PrevSiblings(containers[1]), 1, << >>)
    IN  IF DOMAIN headings = {}
        THEN (Sentinel :> FallbackChild(Children(0), 1))
        ELSE headings

\* BookmarkContext.__init__: top_heading (kobo.py:169-170)
TopHeading(headings) ==
    headings[CHOOSE L \in DOMAIN headings : \A M \in DOMAIN headings : L <= M]

\* BookmarkContext.extract with BookmarkContext.__init__: the context of a
\* row.  context.chapter is read by the driver and is set by no code of
\* src/: it is carried from the row.
Extract(bookmark) ==
    LET s == ExtractAnchor(bookmark.start_container_path, TRUE)
        e == ExtractAnchor(bookmark.end_container_path, FALSE)
    IN  IF ~s.ok \/ ~e.ok THEN Failed
        ELSE LET containers == ContainerRange(s.container, e.container)
             IN  IF ~containers.ok THEN Failed
                 ELSE IF Name(s.element) # "span" \/ Name(e.element) # "span"
                      THEN Failed
                 ELSE [ok |-> TRUE,
                       headings |-> Headings(containers.list),
                       top_heading |-> TopHeading(Headings(containers.list)),
                       containers |-> containers.list,
                       xhtml |-> bookmark.xhtml,
                       chapter |-> bookmark.chapter,
                       bookmark_start |-> s.element,
                       bookmark_start_offset |-> bookmark.start_offset,
                       bookmark_end |-> e.element,
                       bookmark_end_offset |-> bookmark.end_offset]

----------------------------------------------------------------------------
(* s_bookmarks.py: ordering and grouping.                                  *)

\* toc_indices[pair.context.content_id.xhtml]: member documents are named by
\* their position in the table of contents
TocIndex(xhtml) == xhtml

\* The sort key of main (s_bookmarks.py:86-90)
SortKey(pair) ==
    <<TocIndex(pair.context.xhtml),
      Sourceline(pair.context.bookmark_start),
      Sourcepos(pair.context.bookmark_start)>>

\* Python's tuple comparison a < b, on keys of three numbers
KeyLess(a, b) ==
    \/ a[1] < b[1]
    \/ a[1] = b[1] /\ a[2] < b[2]
    \/ a[1] = b[1] /\ a[2] = b[2] /\ a[3] < b[3]

\* list.sort(key=...): stable, ascending
RECURSIVE SortPairs(_)
SortPairs(ps) ==
    IF Len(ps) <= 1 THEN ps
    ELSE LET init == SortPairs(SubSeq(ps, 1, Len(ps) - 1))
             x == Last(ps)
             keep == {k \in 1..Len(init) : ~KeyLess(SortKey(x), SortKey(init[k]))}
             at == IF keep = {} THEN 0 ELSE CHOOSE k \in keep : \A j \in keep : j <= k
         IN  SubSeq(init, 1, at) \o <<x>> \o SubSeq(init, at + 1, Len(init))

\* The test of the inner loop of _group_bookmarks (s_bookmarks.py:161-172):
\* TRUE when the pair at `end` stays in the group in progress
Joins(begin_pair, end_pair, bottommost_container) ==
    /\ end_pair.context.xhtml = begin_pair.context.xhtml
    /\ end_pair.context.chapter = begin_pair.context.chapter
    /\ ~(Sourceline(end_pair.context.containers[1]) > Sourceline(bottommost_container))

\* The inner loop of _group_bookmarks (s_bookmarks.py:153-175); begin and end
\* count from 0 as in the code
RECURSIVE ScanEnd(_, _, _, _)
ScanEnd(ps, begin, end, bottommost_container) ==
    IF ~(end < Len(ps)) THEN end
    ELSE IF ~Joins(ps[begin + 1], ps[end + 1], bottommost_container) THEN end
    ELSE ScanEnd(ps, begin, end + 1, Last(ps[end + 1].context.containers))

\* The loop over one pair's containers (s_bookmarks.py:184-190)
RECURSIVE ExtendContainers(_, _)
ExtendContainers(g_containers, containers) ==
    IF Len(containers) = 0 THEN g_containers
    ELSE ExtendContainers(
            IF Sourceline(containers[1]) > Sourceline(Last(g_containers))
            THEN Append(g_containers, containers[1])
            ELSE g_containers,
            Tail(containers))

\* g_containers of a group (s_bookmarks.py:178-190)
RECURSIVE GroupContainers(_, _)
GroupContainers(g_pairs, n) ==
    IF n = 1 THEN g_pairs[1].context.containers
    ELSE ExtendContainers(GroupContainers(g_pairs, n - 1),
                          g_pairs[n].context.containers)

\* pairs[begin:end + 1]: the slice with the pair after the run
SliceLong(ps, begin, end) == SubSeq(ps, begin + 1, Min(end + 1, Len(ps)))

\* pairs[begin:end]
Slice(ps, begin, end) == SubSeq(ps, begin + 1, end)

\* _group_bookmarks, from `begin` on
RECURSIVE GroupFrom(_, _)
GroupFrom(ps, begin) ==
    IF ~(begin < Len(ps)) THEN << >>
    ELSE LET end == ScanEnd(ps, begin, begin + 1,
                            Last(ps[begin + 1].context.containers))
             g_pairs == Slice(ps, begin, end)
         IN  <<[pairs |-> g_pairs,
                containers |-> GroupContainers(g_pairs, Len(g_pairs))]>>
             \o GroupFrom(ps, end)

GroupBookmarks(ps) == GroupFrom(ps, 0)

RECURSIVE SumPairs(_)
SumPairs(gs) == IF Len(gs) = 0 THEN 0 ELSE Len(gs[1].pairs) + SumPairs(Tail(gs))

----------------------------------------------------------------------------
(* c_bookmarks.py: the Markdown renderer.                                  *)
(* A rendered string is a sequence of characters <<c, src, k>>: c is the   *)
(* character, src tells where it comes from ("text": the text of element   *)
(* k, "open" / "close": a marker format_span inserted for pair k, "html":  *)
(* other markup the renderer writes).  src and k are bookkeeping; the      *)
(* renderer never reads them.  Pairs of a group are numbered from 1: pair  *)
(* k is the code's pair_idx k - 1 and carries the label IK.k.              *)

Chars(cs, src, k) == [j \in 1..Len(cs) |-> <<cs[j], src, k>>]

Digits == <<"1", "2", "3", "4", "5", "6", "7", "8", "9">>

\* '<u><b>' (c_bookmarks.py:396)
OpenMarker(k) == Chars(<<"<", "u", ">", "<", "b", ">">>, "open", k)

\* '</b></u>' followed by sup_md = '<sup>[IK.{pair_idx + 1}]</sup>'
\* (c_bookmarks.py:389-390)
CloseMarker(k) ==
    Chars(<<"<", "/", "b", ">", "<", "/", "u", ">">>
          \o <<"<", "s", "u", "p", ">", "[", "I", "K", ".", Digits[k], "]">>
          \o <<"<", "/", "s", "u", "p", ">">>, "close", k)

\* markdown[:idx] and markdown[idx:] for idx >= 0
Upto(md, idx) == SubSeq(md, 1, Min(idx, Len(md)))
From(md, idx) == SubSeq(md, Min(idx, Len(md)) + 1, Len(md))

\* f'{markdown[:idx]}{marker}{markdown[idx:]}'
Splice(md, idx, marker) == Upto(md, idx) \o marker \o From(md, idx)

\* The descending sequence of a set of pair indices:
\* sorted(in_span_indices, reverse=True)
RECURSIVE Descending(_)
Descending(S) ==
    IF S = {} THEN << >>
    ELSE LET m == CHOOSE k \in S : \A j \in S : j <= k
         IN  <<m>> \o Descending(S \ {m})

\* The same body with the two insertions in the other order: the opening
\* marker first, then the closing marker at the end offset
SpanStepOpenFirst(element, pair_idx, g_pairs, st) ==
    LET context == g_pairs[pair_idx].context
        is_end == ElemEq(element, context.bookmark_end)
        is_start == ElemEq(element, context.bookmark_start)
        md1 == IF is_start
               THEN Splice(st.md, context.bookmark_start_offset, OpenMarker(pair_idx))
               ELSE st.md
        md2 == IF is_end
               THEN Splice(md1, context.bookmark_end_offset, CloseMarker(pair_idx))
               ELSE md1
    IN  [st EXCEPT !.md = md2,
                   !.unq = IF is_end THEN st.unq \ {pair_idx} ELSE st.unq,
                   !.log = IF is_end THEN Append(st.log, pair_idx) ELSE st.log]

\* The body of the second loop of _format_span for one pair index
\* (c_bookmarks.py:383-396)
SpanStep(element, pair_idx, g_pairs, st) ==
    LET context == g_pairs[pair_idx].context
        is_end == ElemEq(element, context.bookmark_end)
        is_start == ElemEq(element, context.bookmark_start)
        md1 == IF is_end
               THEN Splice(st.md, context.bookmark_end_offset, CloseMarker(pair_idx))
               ELSE st.md
        md2 == IF is_start
               THEN Splice(md1, context.bookmark_start_offset, OpenMarker(pair_idx))
               ELSE md1
    IN  [st EXCEPT !.md = md2,
                   !.unq = IF is_end THEN st.unq \ {pair_idx} ELSE st.unq,
                   !.log = IF is_end THEN Append(st.log, pair_idx) ELSE st.log]

RECURSIVE SpanLoop(_, _, _, _)
SpanLoop(element, order, g_pairs, st) ==
    IF Len(order) = 0 THEN st
    ELSE SpanLoop(element, Tail(order), g_pairs,
                  SpanStep(element, order[1], g_pairs, st))

\* The pending pairs anchored at the element (c_bookmarks.py:374-380)
InSpan(element, g_pairs, unq) ==
    {k \in unq : \/ ElemEq(element, g_pairs[k].context.bookmark_start)
                 \/ ElemEq(element, g_pairs[k].context.bookmark_end)}

\* _format_span after the children are rendered (c_bookmarks.py:373-398)
FormatSpanMarkers(element, g_pairs, st) ==
    SpanLoop(element, Descending(InSpan(element, g_pairs, st.unq)), g_pairs, st)

\* _format_fp with the formatters it selects.  st is the Formatting state
\* on entry with st.md the text rendered so far by the caller; the result
\* has md = the element's markdown.
RECURSIVE FormatElement(_, _, _)
RECURSIVE FormatContents(_, _, _, _)

\* _format_children / the loop of _format_paragraph: the contents in order
FormatContents(kids, k, g_pairs, st) ==
    IF k > Len(kids) THEN st
    ELSE LET child == FormatElement(kids[k], g_pairs, [st EXCEPT !.md = << >>])
         IN  FormatContents(kids, k + 1, g_pairs,
                            [child EXCEPT !.md = st.md \o child.md])

FormatChildren(element, g_pairs, st) ==
    FormatContents(Children(element), 1, g_pairs,
                   [st EXCEPT !.md = Chars(doc[element].text, "text", element)])

\* str.strip() of rendered text
RECURSIVE LStripMd(_)
LStripMd(md) ==
    IF Len(md) > 0 /\ md[1][1] \in Whitespace THEN LStripMd(Tail(md)) ELSE md
RECURSIVE RStripMd(_)
RStripMd(md) ==
    IF Len(md) > 0 /\ md[Len(md)][1] \in Whitespace
    THEN RStripMd(SubSeq(md, 1, Len(md) - 1)) ELSE md
StripMd(md) == RStripMd(LStripMd(md))

\* Element.find_all(name): the descendants of that name, in document order
RECURSIVE Under(_, _)
Under(m, n) == IF m <= 0 THEN FALSE ELSE Parent(m) = n \/ Under(Parent(m), n)
FindAll(n, name) ==
    SelectSeq([k \in 1..Len(doc) |-> k], LAMBDA m : Under(m, n) /\ Name(m) = name)

\* Element.find_all(name, recursive=False): the children of that name
FindChildren(n, name) == SelectSeq(Children(n), LAMBDA m : Name(m) = name)

\* The loop over the contents of a tr: a th cell goes to headers, a td cell
\* to the last row; acc holds the Formatting state, headers and rows
RECURSIVE FormatCells(_, _, _, _)
FormatCells(cells, k, g_pairs, acc) ==
    IF k > Len(cells) \/ ~acc.st.ok THEN acc
    ELSE IF Name(cells[k]) \notin {"th", "td"}
    THEN [acc EXCEPT !.st.ok = FALSE]
    ELSE LET child == FormatChildren(cells[k], g_pairs,
                                     [acc.st EXCEPT !.md = << >>])
             cell_md == StripMd(child.md)
             st == [child EXCEPT !.md = << >>]
         IN  FormatCells(cells, k + 1, g_pairs,
                 IF Name(cells[k]) = "th"
                 THEN [acc EXCEPT !.st = st, !.headers = Append(@, cell_md)]
                 ELSE [acc EXCEPT !.st = st,
                                  !.rows[Len(acc.rows)] = Append(@, cell_md)])

\* The loop over the tr children of the body: rows.append([]) for each
RECURSIVE FormatRows(_, _, _, _)
FormatRows(trs, k, g_pairs, acc) ==
    IF k > Len(trs) \/ ~acc.st.ok THEN acc
    ELSE IF Strip(doc[trs[k]].text) # << >> THEN [acc EXCEPT !.st.ok = FALSE]
    ELSE FormatRows(trs, k + 1, g_pairs,
                    FormatCells(Children(trs[k]), 1, g_pairs,
                                [acc EXCEPT !.rows = Append(@, << >>)]))

\* fill: the row extended by empty cells to the width
Fill(row, width) == row \o [j \in 1..(width - Len(row)) |-> << >>]

\* ' | '.join(cells)
RECURSIVE JoinCells(_, _)
JoinCells(cells, k) ==
    IF k > Len(cells) THEN << >>
    ELSE (IF k > 1 THEN Chars(<<" ", "|", " ">>, "html", 0) ELSE << >>)
         \o cells[k] \o JoinCells(cells, k + 1)

\* '| ' + ' | '.join(cells) + ' |\n'
TableLine(cells) ==
    Chars(<<"|", " ">>, "html", 0) \o JoinCells(cells, 1)
    \o Chars(<<" ", "|", "\n">>, "html", 0)

RECURSIVE TableLines(_, _)
TableLines(table_rows, k) ==
    IF k > Len(table_rows) THEN << >>
    ELSE TableLine(table_rows[k]) \o TableLines(table_rows, k + 1)

RECURSIVE MaxLen(_, _)
MaxLen(table_rows, k) ==
    IF k > Len(table_rows) THEN 0
    ELSE Max(Len(table_rows[k]), MaxLen(table_rows, k + 1))

\* _format_table
FormatTable(element, g_pairs, st) ==
    LET bodies == FindAll(element, "tbody")
    IN  IF Len(bodies) # 1 THEN [st EXCEPT !.ok = FALSE]
        ELSE LET trs == FindChildren(bodies[1], "tr")
                 acc == FormatRows(trs, 1, g_pairs,
                                   [st |-> st, headers |-> << >>, rows |-> << >>])
                 width == Max(Len(acc.headers), MaxLen(acc.rows, 1))
             IN  IF ~acc.st.ok \/ Len(acc.rows) = 0
                 THEN [acc.st EXCEPT !.ok = FALSE]
                 ELSE [acc.st EXCEPT !.md =
                          TableLine(Fill(acc.headers, width))
                          \o TableLine([j \in 1..width |->
                                           Chars(<<"-", "-", "-">>, "html", 0)])
                          \o TableLines([k \in 1..Len(acc.rows) |->
                                           Fill(acc.rows[k], width)], 1)]

FormatElement(element, g_pairs, st) ==
    LET name == Name(element)
    IN  CASE name = "p" -> FormatChildren(element, g_pairs, st)
          [] name = "div" -> FormatChildren(element, g_pairs, st)
          [] name = "span" ->
                FormatSpanMarkers(element, g_pairs,
                                  FormatChildren(element, g_pairs, st))
          [] name = "a" ->
                IF ~doc[element].href THEN [st EXCEPT !.md = << >>]
                ELSE LET c == FormatChildren(element, g_pairs, st)
                     IN  [c EXCEPT !.md = Chars(<<"<a href=", "URL", ">">>, "html", 0)
                                          \o c.md
                                          \o Chars(<<"</a>">>, "html", 0)]
          [] name \in {"h1", "h2", "h3", "h4", "h5", "h6"} ->
                LET c == FormatChildren(element, g_pairs, st)
                IN  [c EXCEPT !.md = Chars([j \in 1..HeadingLevel(name) |-> "#"]
                                           \o <<" ">>, "html", 0) \o c.md]
          [] name = "img" ->
                IF st.unq = {} THEN [st EXCEPT !.ok = FALSE]
                ELSE [st EXCEPT !.md = Chars(<<"![", "IMG", "](", "PATH", ")">>,
                                             "html", 0)]
          [] name = "table" -> FormatTable(element, g_pairs, st)
          [] OTHER -> [st EXCEPT !.ok = FALSE]

\* The loop of format_args (c_bookmarks.py:213-216): the Formatting state
\* and containers_md after the first n containers of the group
RECURSIVE FormatArgs(_, _)
FormatArgs(group, n) ==
    IF n = 0
    THEN [md |-> << >>, unq |-> 1..Len(group.pairs), log |-> << >>, ok |-> TRUE,
          containers_md |-> << >>]
    ELSE LET before == FormatArgs(group, n - 1)
             c == FormatElement(group.containers[n], group.pairs,
                                [before EXCEPT !.md = << >>])
         IN  [c EXCEPT !.containers_md = Append(before.containers_md, c.md)]

----------------------------------------------------------------------------
(* Volume identifiers.  A volume id is a sequence of tokens: the prefix    *)
(* "file:///mnt/onboard/" when it has one, the name, the extension.        *)

\* volume_id_file: VOLUME_ID_REGEX = ^file:///mnt/onboard/(.*)$, asserted
VolumeIdFile(volume_id) ==
    IF Len(volume_id) = 0 \/ volume_id[1] # "file:///mnt/onboard/" THEN Failed
    ELSE [ok |-> TRUE, path |-> FormatPath(Tail(volume_id), TRUE)]

\* KEPUB.is_kepub: KEPUB_REGEX = \.kepub\.epub$ on the file of the volume id
IsKepub(volume_id) ==
    LET file == VolumeIdFile(volume_id).path
    IN  file[Len(file)] = ".kepub.epub"

\* The volume whose archive is on the device, and the files on the device
TheVolume == <<"file:///mnt/onboard/", "book", ".kepub.epub">>
OtherVolume == <<"file:///mnt/onboard/", "copy", ".kepub.epub">>
Files == {FormatPath(Tail(TheVolume), TRUE), FormatPath(Tail(OtherVolume), TRUE)}

----------------------------------------------------------------------------
(* s_bookmarks.main: the rows of one volume whose archive is on the device, *)
(* and rows of volumes that are skipped.                                   *)

\* KEPUB.Metadata of an opened volume: title, author, publisher and
\* timestamp, each NoMetadata when the package document has no such element
NoMetadata == <<"(None)">>

\* datetime.year of a timestamp <<year, month, day>>
Year(timestamp) == timestamp[1]

\* MarkdownFormatter.filename
Filename(metadata) ==
    IF metadata.title = NoMetadata THEN Failed
    ELSE LET titled == metadata.title
             authored == IF metadata.author # NoMetadata
                         THEN metadata.author \o <<".", " ">> \o titled
                         ELSE titled
             published == IF metadata.publisher # NoMetadata
                          THEN authored \o <<".", " ">> \o metadata.publisher
                          ELSE authored
             dated == IF metadata.timestamp # NoMetadata
                      THEN published \o <<".", " ">> \o <<Year(metadata.timestamp)>>
                      ELSE published
         IN  [ok |-> TRUE, name |-> dated \o <<".md">>]

\* The metadata KEPUB.open reads from the package document of a volume
Metadata(volume_id) ==
    [title |-> <<volume_id[2]>>, author |-> <<"A">>, publisher |-> NoMetadata,
     timestamp |-> NoMetadata]

\* context.title, read by new_chapter and set by no code of src/
ContextTitle == <<"(title)">>

\* main's chapter before the first group is read
NoChapter == 0

Html(cs) == Chars(cs, "html", 0)

\* The ascending sequence of a set of levels: sorted(context.headings.keys())
RECURSIVE Ascending(_)
Ascending(S) ==
    IF S = {} THEN << >>
    ELSE LET m == CHOOSE x \in S : \A y \in S : x <= y
         IN  <<m>> \o Ascending(S \ {m})

\* The loop of new_chapter: ' / ' and the children of every heading, with
\* one Formatting for all of them
RECURSIVE HeadingsMd(_, _, _, _)
HeadingsMd(context, levels, k, st) ==
    IF k > Len(levels) \/ ~st.ok THEN st
    ELSE LET h == FormatChildren(context.headings[levels[k]], st.g_pairs,
                                 [st EXCEPT !.md = << >>])
         IN  HeadingsMd(context, levels, k + 1,
                        [h EXCEPT !.md = st.md \o Html(<<" ", "/", " ">>) \o h.md])

\* MarkdownFormatter.new_chapter
NewChapter(group) ==
    LET context == group.pairs[1].context
        st == HeadingsMd(context, Ascending(DOMAIN context.headings), 1,
                         [md |-> Html(ContextTitle), unq |-> 1..Len(group.pairs),
                          log |-> << >>, ok |-> TRUE, g_pairs |-> group.pairs])
    IN  [ok |-> st.ok,
         md |-> Html(<<"#", "#", " ">>) \o st.md \o Html(<<"\n">>)]

\* str.split('\n'): the pieces between the line breaks
SplitLines(md) ==
    LET breaks == <<0>> \o Ascending({k \in 1..Len(md) : md[k][1] = "\n"})
                  \o <<Len(md) + 1>>
    IN  [i \in 1..(Len(breaks) - 1) |->
            SubSeq(md, breaks[i] + 1, breaks[i + 1] - 1)]

\* '\n'.join(lines)
RECURSIVE JoinLines(_, _)
JoinLines(lines, k) ==
    IF k > Len(lines) THEN << >>
    ELSE (IF k > 1 THEN Html(<<"\n">>) ELSE << >>)
         \o lines[k] \o JoinLines(lines, k + 1)

\* A prefix before every line and '\n'.join of the result
QuoteEveryLine(lines) ==
    JoinLines([k \in 1..Len(lines) |-> Html(<<">", " ">>) \o lines[k]], 1)

\* The loop body of _quote_bookmark: the non-empty lines of a container,
\* every line of a table prefixed, the lines of another container joined
\* and then prefixed
QuoteContainer(name, container_md) ==
    LET lines == SelectSeq(SplitLines(container_md),
                           LAMBDA line : Len(line) # 0)
    IN  IF name # "table"
        THEN Html(<<">", " ">>) \o JoinLines(lines, 1)
        ELSE QuoteEveryLine(lines)

RECURSIVE QuoteContainers(_, _, _)
QuoteContainers(containers, mds, i) ==
    IF i > Len(containers) THEN << >>
    ELSE QuoteContainer(Name(containers[i]), mds[i])
         \o (IF i # Len(containers) THEN Html(<<"\n", ">", "\n">>)
             ELSE Html(<<"\n">>))
         \o QuoteContainers(containers, mds, i + 1)

\* timestamp_str: the date of the timestamp in the configured format
TimestampStr(timestamp) == <<timestamp>>

\* The label one too small
FootnoteLabelOff(i) == <<"I", "K", ".", IF i = 1 THEN "0" ELSE Digits[i - 1]>>

\* The label of the footnote of the i-th pair: f'IK.{i + 1}' for the index
\* i - 1 of enumerate
FootnoteLabel(i) == <<"I", "K", ".", Digits[i]>>

\* One pass of the second loop of _quote_bookmark: the metadata block of
\* the i-th pair
Footnote(pair, i) ==
    LET bookmark == pair.bookmark
        is_note == bookmark.bookmark_type = "NOTE"
    IN  Chars(<<">", " ", "_", "_", "_", "\n">>, "foot", i)
        \o Chars(<<">", ">", " ">> \o FootnoteLabel(i) \o <<" ", "\\", "\n">>,
                 "foot", i)
        \o Chars(<<">", ">", " ", "**", "Creado", "**", ":", " ">>
                 \o TimestampStr(bookmark.date_created) \o <<" ", "\\", "\n">>,
                 "foot", i)
        \o Chars(<<">", ">", " ", "**", "Modificado", "**", ":", " ">>
                 \o TimestampStr(bookmark.date_modified)
                 \o (IF is_note THEN <<" ", "\\", "\n">> ELSE <<"\n">>),
                 "foot", i)
        \o (IF is_note
            THEN Chars(<<">", ">", " ", "**", "Anotacion", "**", ":", " ">>
                       \o bookmark.annotation \o <<"\n">>, "foot", i)
            ELSE << >>)

RECURSIVE Footnotes(_, _)
Footnotes(g_pairs, i) ==
    IF i > Len(g_pairs) THEN << >>
    ELSE Footnote(g_pairs[i], i) \o Footnotes(g_pairs, i + 1)

\* _quote_bookmark after format_args
QuoteBookmark(group, mds) ==
    QuoteContainers(group.containers, mds, 1)
    \o Footnotes(group.pairs, 1)
    \o Html(<<"\n">>)

\* The first row or more of main's first loop are handled
FirstLoopBegun == row_i > 1

\* main's first loop is over: every row is handled
FirstLoopDone == row_i > Len(rows)

\* Every group counts as the first of a chapter
ChapterChangedAlways(g_chapter, last_chapter) == TRUE

\* g_chapter != chapter
ChapterChanged(g_chapter, last_chapter) == g_chapter # last_chapter

\* fd.write(text) on the file opened last
Write(fs, kind, text) ==
    [fs EXCEPT ![Len(fs)].writes = Append(@, [kind |-> kind, text |-> text])]

\* The index of the volume in kepubs, 0 when it is no key
RECURSIVE KepubIndex(_, _, _)
KepubIndex(ks, volume_id, k) ==
    IF k > Len(ks) THEN 0
    ELSE IF ks[k].volume_id = volume_id THEN k
    ELSE KepubIndex(ks, volume_id, k + 1)

\* One iteration of the first loop of main (s_bookmarks.py:51-77): the row
\* is resolved to a context and the pair is appended; a failed assertion of
\* the resolver ends the run
ExtractRow ==
    /\ pc = "resolve"
    /\ row_i <= Len(rows)
    /\ LET volume_id == rows[row_i].volume_id
           file == VolumeIdFile(volume_id)
       IN  IF ~file.ok
           THEN /\ pc' = "resolve_failed"
                /\ UNCHANGED <<kepubs, pairs, row_i, log>>
           ELSE IF ~IsKepub(volume_id)
           THEN /\ printed' = IF volume_id \notin not_kepubs
                               THEN Append(printed, <<"Not a KEPUB", volume_id>>)
                               ELSE printed
                /\ not_kepubs' = not_kepubs \cup {volume_id}
                /\ row_i' = row_i + 1
                /\ UNCHANGED <<kepubs, pairs, pc, dont_exist>>
           ELSE IF file.path \notin Files
           THEN /\ printed' = IF volume_id \notin dont_exist
                               THEN Append(printed,
                                           <<"KEPUB does not exists", volume_id>>)
                               ELSE printed
                /\ dont_exist' = dont_exist \cup {volume_id}
                /\ row_i' = row_i + 1
                /\ UNCHANGED <<kepubs, pairs, pc, not_kepubs>>
           ELSE LET opened == IF KepubIndex(kepubs, volume_id, 1) # 0 THEN kepubs
                              ELSE Append(kepubs, [volume_id |-> volume_id,
                                                   metadata |-> Metadata(volume_id),
                                                   pairs |-> << >>])
                    v == KepubIndex(opened, volume_id, 1)
                    context == Extract(rows[row_i])
                IN  /\ IF context.ok
                       THEN /\ kepubs' = [opened EXCEPT ![v].pairs =
                                             Append(@, [bookmark |-> rows[row_i],
                                                        context |-> context])]
                            /\ pairs' = kepubs'[v].pairs
                            /\ row_i' = row_i + 1
                            /\ pc' = pc
                       ELSE /\ kepubs' = opened
                            /\ pc' = "resolve_failed"
                            /\ UNCHANGED <<pairs, row_i>>
                    /\ UNCHANGED log
    /\ UNCHANGED <<doc, rows, volume_i, grouped_pairs, group_i, containers_md,
                   unquoted_pair_indices, removed_log, written, files, chapter,
                   others>>

\* The head of one pass of the second loop of main (s_bookmarks.py:79-114):
\* the pairs of the volume are sorted and grouped, the output file is opened
\* and the preamble and the header of the first chapter are written.
\* Without a volume in kepubs the run ends.
SortAndGroup ==
    /\ pc = "resolve"
    /\ FirstLoopDone
    /\ IF volume_i > Len(kepubs)
       THEN /\ pc' = "done"
            /\ UNCHANGED <<kepubs, pairs, grouped_pairs, group_i, written, files,
                           chapter>>
       ELSE LET kepub == kepubs[volume_i]
                sorted == SortPairs(kepub.pairs)
                groups == GroupBookmarks(sorted)
                dst_file == Filename(kepub.metadata)
            IN  /\ kepubs' = [kepubs EXCEPT ![volume_i].pairs = sorted]
                /\ pairs' = sorted
                /\ grouped_pairs' = groups
                /\ group_i' = 1
                /\ written' = << >>
                /\ IF SumPairs(groups) # Len(sorted)
                   THEN pc' = "group_failed" /\ UNCHANGED <<files, chapter>>
                   ELSE IF ~dst_file.ok
                   THEN pc' = "filename_failed" /\ UNCHANGED <<files, chapter>>
                   ELSE LET opened == Append(files, [name |-> dst_file.name,
                                                     writes |-> << >>,
                                                     closed |-> FALSE])
                            begun == Write(opened, "begin", Html(<<"(begin)">>))
                            new_chapter_md == NewChapter(groups[1])
                        IN  IF ~new_chapter_md.ok
                            THEN /\ files' = begun
                                 /\ pc' = "chapter_failed"
                                 /\ UNCHANGED chapter
                            ELSE /\ files' = Write(begun, "new_chapter",
                                                   new_chapter_md.md)
                                 /\ chapter' = groups[1].pairs[1].context.chapter
                                 /\ pc' = "render"
    /\ UNCHANGED <<doc, rows, row_i, volume_i, containers_md,
                   unquoted_pair_indices, removed_log, log, others>>

\* One iteration of the render loop of main (s_bookmarks.py:115-134) with
\* _quote_bookmark and format_args (c_bookmarks.py:160-220): the header of a
\* new chapter is written, the group's containers are rendered and the
\* quoted block is written; the assertion that no pair is pending ends the
\* run when it fails
RenderGroup ==
    /\ pc = "render"
    /\ group_i <= Len(grouped_pairs)
    /\ LET group == grouped_pairs[group_i]
           g_chapter == group.pairs[1].context.chapter
           new_chapter_md == NewChapter(group)
           r == FormatArgs(group, Len(group.containers))
           headed == IF ChapterChanged(g_chapter, chapter)
                     THEN Write(files, "new_chapter", new_chapter_md.md)
                     ELSE files
       IN  IF ChapterChanged(g_chapter, chapter) /\ ~new_chapter_md.ok
           THEN /\ chapter' = g_chapter
                /\ pc' = "chapter_failed"
                /\ UNCHANGED <<containers_md, unquoted_pair_indices, removed_log,
                               written, files, group_i>>
           ELSE /\ chapter' = g_chapter
                /\ containers_md' = r.containers_md
                /\ unquoted_pair_indices' = r.unq
                /\ removed_log' = r.log
                /\ IF r.ok /\ r.unq = {}
                   THEN /\ written' = Append(written, r.containers_md)
                        /\ files' = Write(headed, "bookmark",
                                          QuoteBookmark(group, r.containers_md))
                        /\ group_i' = group_i + 1
                        /\ pc' = pc
                   ELSE /\ files' = headed
                        /\ pc' = "render_failed"
                        /\ UNCHANGED <<written, group_i>>
    /\ UNCHANGED <<doc, rows, row_i, kepubs, pairs, volume_i, grouped_pairs, log,
                   others>>

\* The end of one pass of the second loop (s_bookmarks.py:136-139): the
\* postamble is written and the file is closed; main goes on to the next
\* volume or returns
Finish ==
    /\ pc = "render"
    /\ group_i > Len(grouped_pairs)
    /\ files' = [Write(files, "end", Html(<<"(end)">>))
                    EXCEPT ![Len(files)].closed = TRUE]
    /\ volume_i' = volume_i + 1
    /\ pc' = IF volume_i < Len(kepubs) THEN "resolve" ELSE "done"
    /\ UNCHANGED <<doc, rows, row_i, kepubs, pairs, grouped_pairs, group_i,
                   containers_md, unquoted_pair_indices, removed_log, written,
                   chapter, log, others>>

Next == ExtractRow \/ SortAndGroup \/ RenderGroup \/ Finish

----------------------------------------------------------------------------
(* Input families: member documents and bookmark rows.                     *)

\* The first n characters of a text
Txt(n) == SubSeq(<<"w", "x", "y", "z", "v">>, 1, n)

\* The id attribute of the n-th span of a Kobo document: kobo.<n>.1
KoboId(n) == <<"kobo", ".", Digits[n], ".", "1">>

\* The device stores "." of an id as "\."
RECURSIVE Escape(_)
Escape(s) ==
    IF Len(s) = 0 THEN << >>
    ELSE (IF s[1] = "." THEN <<"\\", ".">> ELSE <<s[1]>>) \o Escape(Tail(s))

\* The container path the device stores for an element
PathOf(tag, id) == <<tag, "#">> \o Escape(id)

El(up, name, id, href, text) ==
    [up |-> up, name |-> name, id |-> id, href |-> href, text |-> text]

\* Root-level subtrees: <p><span id>text</span></p>,
\* <p><a><span id>text</span></a></p> with or without href,
\* <span id>text</span>, <p><span id>text</span><span id'>text</span></p>
TplP(id, text) == <<El(0, "p", NoId, FALSE, << >>), El(1, "span", id, FALSE, text)>>
TplLink(id, text, href) ==
    <<El(0, "p", NoId, FALSE, << >>), El(1, "a", NoId, href, << >>),
      El(2, "span", id, FALSE, text)>>
TplSpan(id, text) == <<El(0, "span", id, FALSE, text)>>
TplP2(id, text, id2, text2) ==
    <<El(0, "p", NoId, FALSE, << >>), El(1, "span", id, FALSE, text),
      El(1, "span", id2, FALSE, text2)>>

\* The document made of the subtrees ts, the n-th on source line lines[n]
RECURSIVE Assemble(_, _, _)
Assemble(ts, lines, n) ==
    IF n = 0 THEN << >>
    ELSE LET before == Assemble(ts, lines, n - 1)
             base == Len(before)
             t == ts[n]
         IN  before \o [j \in 1..Len(t) |->
                          [parent |-> IF t[j].up = 0 THEN 0 ELSE base + t[j].up,
                           name |-> t[j].name, id |-> t[j].id, href |-> t[j].href,
                           text |-> t[j].text, sourceline |-> lines[n]]]

\* Source lines of n root-level elements: the first on line 1, each next one
\* on the same line as the one before it or on the next line
LineLayouts(n) ==
    {l \in [1..n -> 1..n] :
        /\ l[1] = 1
        /\ \A k \in 2..n : l[k] = l[k - 1] \/ l[k] = l[k - 1] + 1}

SeqsUpTo(S, n) == UNION {[1..m -> S] : m \in 1..n}

Members == {1, 2}       \* member documents, by position in the TOC
Chapters == {1, 2}      \* heading results
BookmarkTypes == {"NOTE", "HIGHLIGHT"}

Row(start_path, start_offset, end_path, end_offset, xhtml, in_chapter, type) ==
    [start_container_path |-> start_path, start_offset |-> start_offset,
     end_container_path |-> end_path, end_offset |-> end_offset,
     xhtml |-> xhtml, chapter |-> in_chapter, bookmark_type |-> type,
     volume_id |-> TheVolume, annotation |-> <<"n">>,
     date_created |-> "2024-01-01", date_modified |-> "2024-01-02"]

\* main before its first loop
InitMain ==
    /\ row_i = 1
    /\ kepubs = << >>
    /\ pairs = << >>
    /\ volume_i = 1
    /\ files = << >>
    /\ chapter = NoChapter
    /\ grouped_pairs = << >>
    /\ group_i = 1
    /\ containers_md = << >>
    /\ unquoted_pair_indices = {}
    /\ removed_log = << >>
    /\ written = << >>
    /\ pc = "resolve"
    /\ printed = << >>
    /\ not_kepubs = {}
    /\ dont_exist = {}

InitRest ==
    /\ InitMain
    /\ my_words = Idle
    /\ handle = Idle
    /\ call = Idle
    /\ result = Idle

----------------------------------------------------------------------------
(* Grouping: documents of paragraphs with one span each, any layout of     *)
(* source lines, rows given in reading order.                              *)

GroupMaxContainers == 2
GroupMaxPairs == 3

GroupDocs ==
    UNION {{Assemble([k \in 1..n |-> TplP(KoboId(k), Txt(1))], l, n) :
                l \in LineLayouts(n)} : n \in 1..GroupMaxContainers}

\* A marked range from span s to span e, s not after e, in member x under
\* heading result c; the first member has every heading, the others one
GroupRanges(n) ==
    {r \in [s : 1..n, e : 1..n, x : Members, c : Chapters] :
        r.s <= r.e /\ (r.x > 1 => r.c = 1)}

\* Reading order: by member, then by start anchor
GroupInOrder(rs) ==
    \A k \in 1..Len(rs) - 1 :
        \/ rs[k].x < rs[k + 1].x
        \/ rs[k].x = rs[k + 1].x /\ rs[k].s <= rs[k + 1].s

GroupRow(r) ==
    Row(PathOf("span", KoboId(r.s)), 0, PathOf("span", KoboId(r.e)), 1,
        r.x, r.c, "HIGHLIGHT")

GroupInit ==
    /\ doc \in GroupDocs
    /\ \E rs \in {q \in SeqsUpTo(GroupRanges(Len(doc) \div 2), GroupMaxPairs) :
                    GroupInOrder(q)} :
          rows = [k \in 1..Len(rs) |-> GroupRow(rs[k])]
    /\ InitRest

SpecGroup == GroupInit /\ [][Next]_vars

----------------------------------------------------------------------------
(* Properties of grouping.                                                 *)

\* main has sorted and grouped a non-empty list of pairs
Grouped ==
    /\ pc \in {"render", "done", "group_failed", "render_failed"}
    /\ Len(pairs) > 0

RECURSIVE ConcatPairs(_)
ConcatPairs(gs) ==
    IF Len(gs) = 0 THEN << >> ELSE gs[1].pairs \o ConcatPairs(Tail(gs))

\* C1: every group holds a non-empty run of the sorted pairs, and the groups'
\* pair lists concatenated in output order are exactly the sorted list
C1_GroupsPartitionPairs ==
    Grouped =>
        /\ \A g \in 1..Len(grouped_pairs) : Len(grouped_pairs[g].pairs) >= 1
        /\ ConcatPairs(grouped_pairs) = pairs

\* Witness of C1: three pairs were split into two groups, one of two pairs
C1_Witness ==
    /\ Grouped
    /\ Len(pairs) = 3
    /\ Len(grouped_pairs) = 2
    /\ \E g \in 1..2 : Len(grouped_pairs[g].pairs) = 2

\* The containers of the member pairs of a group
Covered(group) ==
    {c \in Nodes : \E k \in 1..Len(group.pairs) :
        \E j \in 1..Len(group.pairs[k].context.containers) :
            group.pairs[k].context.containers[j] = c}

\* C2: the container list of a group holds every container of every member
\* pair exactly once, in document order, and skips no root-level child
\* between its first and its last container
C2_GroupContainersCoverRanges ==
    Grouped =>
        \A g \in 1..Len(grouped_pairs) :
            LET cs == grouped_pairs[g].containers
            IN  /\ \A c \in Covered(grouped_pairs[g]) :
                      Cardinality({j \in 1..Len(cs) : cs[j] = c}) = 1
                /\ \A j \in 1..Len(cs) - 1 : cs[j] < cs[j + 1]
                /\ \A c \in Nodes :
                      (doc[c].parent = 0 /\ cs[1] <= c /\ c <= Last(cs))
                          => \E j \in 1..Len(cs) : cs[j] = c

\* The position in the sorted list of the first pair of the group holding
\* the pair at position k
RECURSIVE GroupStart(_, _, _)
GroupStart(gs, k, before) ==
    IF k <= before + Len(gs[1].pairs) THEN before + 1
    ELSE GroupStart(Tail(gs), k, before + Len(gs[1].pairs))

\* The lowest container accumulated over the pairs at positions b .. k
Lowest(b, k) ==
    CHOOSE c \in {Last(pairs[j].context.containers) : j \in b..k} :
        \A j \in b..k : Last(pairs[j].context.containers) <= c

\* C3: a pair joins the group in progress exactly when member path and
\* heading result equal the group's and its first container does not start
\* after the source line of the lowest container accumulated by the group
C3_JoinsExactlyWhenTouching ==
    Grouped =>
        \A k \in 2..Len(pairs) :
            LET b == GroupStart(grouped_pairs, k - 1, 0)
            IN  (GroupStart(grouped_pairs, k, 0) = b)
                <=> /\ pairs[k].context.xhtml = pairs[b].context.xhtml
                    /\ pairs[k].context.chapter = pairs[b].context.chapter
                    /\ Sourceline(pairs[k].context.containers[1])
                          <= Sourceline(Lowest(b, k - 1))

----------------------------------------------------------------------------
(* Context resolution: documents of up to ExtMaxContainers root-level      *)
(* subtrees with anchors at depth 1, 2 and 3 and with repeated ids; one    *)
(* row whose paths are stored escaped, unescaped, without a match or       *)
(* malformed.                                                              *)

ExtMaxContainers == 3
ExtIds == {1, 2}

ExtTemplates ==
    UNION {{TplP(KoboId(i), Txt(1)),
            TplLink(KoboId(i), Txt(1), FALSE),
            TplSpan(KoboId(i), Txt(1)),
            <<El(0, "p", NoId, FALSE, << >>), El(1, "img", KoboId(i), FALSE, << >>),
              El(1, "span", KoboId(i), FALSE, Txt(1))>>} : i \in ExtIds}

ExtDocs ==
    UNION {{Assemble(ts, [k \in 1..n |-> k], n) : ts \in [1..n -> ExtTemplates]} :
                n \in 1..ExtMaxContainers}

ExtPaths ==
    {PathOf("span", KoboId(i)) : i \in ExtIds \cup {3}}
        \cup {<<"span", "#">> \o KoboId(1), <<"span">> \o KoboId(1),
              PathOf("img", KoboId(1))}

\* The elements a stored path may refer to: the tag before "#", the id
\* after it with "." written "\." or plainly
Referents(path) ==
    {n \in Nodes : path = PathOf(doc[n].name, doc[n].id)
                   \/ path = <<doc[n].name, "#">> \o doc[n].id}

\* AnnotationRecord's invariant: the start reference resolves to an element
\* at or before the end reference in document order.  A reference to no
\* element is a stale one.
RowInOrder(r) ==
    \/ Referents(r.start_container_path) = {}
    \/ Referents(r.end_container_path) = {}
    \/ \E a \in Referents(r.start_container_path) :
          \E b \in Referents(r.end_container_path) :
              a < b \/ (a = b /\ r.start_offset <= r.end_offset)

ExtInit ==
    /\ doc \in ExtDocs
    /\ \E sp \in ExtPaths, ep \in ExtPaths :
          /\ rows = <<Row(sp, 0, ep, 1, 1, 1, "HIGHLIGHT")>>
          /\ RowInOrder(rows[1])
    /\ InitRest

SpecExtract == ExtInit /\ [][Next]_vars

----------------------------------------------------------------------------
(* Properties of context resolution.                                       *)

\* The element n or one of its ancestors below the root container
RECURSIVE AncestorsOrSelf(_)
AncestorsOrSelf(n) == IF n <= 0 THEN {} ELSE {n} \cup AncestorsOrSelf(doc[n].parent)

\* The direct children of the root container
RootChildren == {c \in Nodes : doc[c].parent = 0}

\* C8: the container range of a context is non-empty, starts at the start
\* anchor's top-level container, ends at the end anchor's, and is exactly the
\* root container's direct children between the two, in document order
C8_ContainerRangeIsSlice ==
    \A k \in 1..Len(pairs) :
        LET context == pairs[k].context
            cs == context.containers
        IN  /\ Len(cs) >= 1
            /\ cs[1] \in RootChildren \cap AncestorsOrSelf(context.bookmark_start)
            /\ Last(cs) \in RootChildren \cap AncestorsOrSelf(context.bookmark_end)
            /\ \A j \in 1..Len(cs) - 1 : cs[j] < cs[j + 1]
            /\ {cs[j] : j \in 1..Len(cs)}
                  = {c \in RootChildren : cs[1] <= c /\ c <= Last(cs)}

\* Witness of C8: a resolved range of three containers whose end anchor lies
\* two levels below its container
C8_Witness ==
    \E k \in 1..Len(pairs) :
        /\ Len(pairs[k].context.containers) = 3
        /\ doc[doc[pairs[k].context.bookmark_end].parent].parent
              = Last(pairs[k].context.containers)

\* The rows the first loop of main has taken up: those before row_i, and
\* row_i itself when resolving it ended the run
Handled ==
    {k \in 1..Len(rows) : k < row_i \/ (k = row_i /\ pc = "resolve_failed")}

\* C9: for every anchor found under the root container, at any depth, the
\* top-level container _extract computes is a direct child of the root
\* container and is the anchor or one of its ancestors
C9_TopLevelContainerOfEveryAnchor ==
    \A k \in Handled :
        \A first \in BOOLEAN :
            LET path == IF first THEN rows[k].start_container_path
                        ELSE rows[k].end_container_path
                h == LastHash(path, Len(path))
                found == IF h = 0 THEN << >>
                         ELSE FindAllWithId(SubSeq(path, 1, h - 1),
                                            Unescape(SubSeq(path, h + 1, Len(path))))
                r == ExtractAnchor(path, first)
            IN  Len(found) > 0 =>
                    /\ r.ok
                    /\ r.container \in RootChildren \cap AncestorsOrSelf(r.element)

\* The id a stored id denotes: every "\" that is followed by "." is dropped
Denoted(raw) ==
    LET keep == SelectSeq([k \in 1..Len(raw) |-> k],
                          LAMBDA k : ~(raw[k] = "\\" /\ k < Len(raw) /\ raw[k + 1] = "."))
    IN  [j \in 1..Len(keep) |-> raw[keep[j]]]

\* The elements with the tag of a container path and the id it denotes
Matching(path) ==
    {n \in Nodes : \E h \in 1..Len(path) :
        /\ path[h] = "#"
        /\ \A j \in 1..Len(path) : path[j] = "#" => j = h
        /\ <<doc[n].name>> = SubSeq(path, 1, h - 1)
        /\ doc[n].id = Denoted(SubSeq(path, h + 1, Len(path)))}

----------------------------------------------------------------------------
(* Boundary splicing: one paragraph with two spans of the same text; up to *)
(* SpanMaxPairs rows anchored at the spans at any offsets into the text.   *)

SpanMaxPairs == 2
SpanText == <<"w", "x", "y">>

SpanDoc == Assemble(<<TplP2(KoboId(1), SpanText, KoboId(2), SpanText)>>, <<1>>, 1)

\* A marked range from offset so of span s to offset eo of span e
SpanRanges ==
    {r \in [s : 1..2, so : 0..Len(SpanText), e : 1..2, eo : 0..Len(SpanText)] :
        r.s < r.e \/ (r.s = r.e /\ r.so <= r.eo)}

SpanRow(r) ==
    Row(PathOf("span", KoboId(r.s)), r.so, PathOf("span", KoboId(r.e)), r.eo,
        1, 1, "HIGHLIGHT")

SpanInit ==
    /\ doc = SpanDoc
    /\ \E rs \in SeqsUpTo(SpanRanges, SpanMaxPairs) :
          rows = [k \in 1..Len(rs) |-> SpanRow(rs[k])]
    /\ InitRest

SpecSpan == SpanInit /\ [][Next]_vars

----------------------------------------------------------------------------
(* Properties of rendering.                                                *)

\* format_args has run for a group: the group, and whether it returned
Rendered == (pc \in {"render", "done"} /\ group_i > 1) \/ pc = "render_failed"
LastGroup ==
    IF pc = "render_failed" THEN grouped_pairs[group_i] ELSE grouped_pairs[group_i - 1]

\* The rendered text of the last group, its containers one after the other
RECURSIVE Flat(_)
Flat(mds) == IF Len(mds) = 0 THEN << >> ELSE mds[1] \o Flat(Tail(mds))

Positions(md, src, k) == {j \in 1..Len(md) : md[j][2] = src /\ md[j][3] = k}

\* C4: after all the top-level containers of a group have been rendered
\* (format_args has reached its check of the pending set) no pair index
\* of the group is pending
C4_NothingPendingAfterGroup == Rendered => unquoted_pair_indices = {}

\* The marker of pair k stands unbroken in md with `offset` characters of
\* the element's text before it
MarkerAt(md, marker, src, k, element, offset) ==
    LET at == Positions(md, src, k)
    IN  /\ at # {}
        /\ \E first \in at :
              /\ at = first..(first + Len(marker) - 1)
              /\ SubSeq(md, first, first + Len(marker) - 1) = marker
              /\ Cardinality({j \in Positions(md, "text", element) : j < first})
                    = offset

\* The elements that anchor at least two pairs of the group
SharedAnchors(group) ==
    {n \in Nodes :
        Cardinality({k \in 1..Len(group.pairs) :
                        \/ group.pairs[k].context.bookmark_start = n
                        \/ group.pairs[k].context.bookmark_end = n}) >= 2}

\* C5: when pairs share an anchor element, every marker inserted there
\* sits at its own pair's offset into the element's rendered text, and
\* without the markers the text is the original one
C5_SharedAnchorMarkersAtOffsets ==
    Rendered =>
        LET md == Flat(containers_md)
            g == LastGroup
        IN  \A n \in SharedAnchors(g) :
                /\ SelectSeq(md, LAMBDA c : c[2] = "text" /\ c[3] = n)
                      = Chars(doc[n].text, "text", n)
                /\ \A k \in 1..Len(g.pairs) :
                      LET context == g.pairs[k].context
                      IN  /\ context.bookmark_start = n =>
                                MarkerAt(md, OpenMarker(k), "open", k, n,
                                         context.bookmark_start_offset)
                          /\ context.bookmark_end = n =>
                                MarkerAt(md, CloseMarker(k), "close", k, n,
                                         context.bookmark_end_offset)

\* What _format_span returned for element n when pair k was the only pair
\* anchored there: the element's text and the markers of the pair
SpanOutput(md, n, k) ==
    SelectSeq(md, LAMBDA c : \/ (c[2] = "text" /\ c[3] = n)
                             \/ (c[2] \in {"open", "close"} /\ c[3] = k))

\* C6: for a single pair whose anchors are one element with offsets
\* 0 <= start <= end <= length of its text T, _format_span renders the
\* element as T[0..start) open T[start..end) close T[end..), the close
\* marker carrying the footnote label of the pair
C6_SinglePairSplice ==
    (Rendered /\ Len(LastGroup.pairs) = 1 /\ removed_log = <<1>>) =>
        LET context == LastGroup.pairs[1].context
            n == context.bookmark_start
            T == Chars(doc[n].text, "text", n)
            s == context.bookmark_start_offset
            e == context.bookmark_end_offset
        IN  (n = context.bookmark_end /\ 0 <= s /\ s <= e /\ e <= Len(T)) =>
                SpanOutput(Flat(containers_md), n, 1)
                    = SubSeq(T, 1, s) \o OpenMarker(1)
                      \o SubSeq(T, s + 1, e) \o CloseMarker(1)
                      \o SubSeq(T, e + 1, Len(T))

\* Witness of C6: a single pair was rendered whose range lies strictly
\* inside the text of its one anchor element
C6_Witness ==
    /\ Rendered
    /\ Len(LastGroup.pairs) = 1
    /\ LastGroup.pairs[1].context.bookmark_start = LastGroup.pairs[1].context.bookmark_end
    /\ LastGroup.pairs[1].context.bookmark_start_offset = 1
    /\ LastGroup.pairs[1].context.bookmark_end_offset = 2
    /\ removed_log = <<1>>
    /\ written # << >>

\* C7: while a group is rendered, every pair gets exactly one open marker
\* and exactly one close marker, the open marker before the close marker,
\* and its index leaves the pending set exactly once
C7_OneOpenOneClosePerPair ==
    (pc \in {"render", "done"} /\ group_i > 1) =>
        LET md == Flat(containers_md)
        IN  \A k \in 1..Len(LastGroup.pairs) :
                /\ Cardinality(Positions(md, "open", k)) = Len(OpenMarker(k))
                /\ Cardinality(Positions(md, "close", k)) = Len(CloseMarker(k))
                /\ \A i \in Positions(md, "open", k) :
                      \A j \in Positions(md, "close", k) : i < j
                /\ Cardinality({j \in 1..Len(removed_log) : removed_log[j] = k}) = 1

----------------------------------------------------------------------------
(* Heading hierarchy: documents of up to HeadMaxContainers root-level      *)
(* elements, each a heading (with or without an anchor) or a paragraph     *)
(* whose span has text, only whitespace or nothing; one row.               *)

HeadMaxContainers == 3

\* <hN>t</hN> and <hN><span id>w</span></hN>
TplH(name) == <<El(0, name, NoId, FALSE, <<"t">>)>>
TplHSpan(name, id) ==
    <<El(0, name, NoId, FALSE, << >>), El(1, "span", id, FALSE, <<"w">>)>>

HeadTemplates(k) ==
    {TplH("h1"), TplH("h2"), TplH("h7"), TplHSpan("h2", KoboId(k))}
    \cup {TplP(KoboId(k), text) : text \in {<< >>, <<" ">>, <<"w">>}}

HeadDocs ==
    UNION {{Assemble(ts, [k \in 1..n |-> k], n) :
                ts \in {q \in [1..n -> UNION {HeadTemplates(k) : k \in 1..n}] :
                            \A k \in 1..n : q[k] \in HeadTemplates(k)}} :
           n \in 1..HeadMaxContainers}

\* The spans of the document, in document order
Spans == {n \in Nodes : doc[n].name = "span"}

HeadInit ==
    /\ doc \in HeadDocs
    /\ \E a \in Spans : \E b \in Spans :
          /\ a <= b
          /\ rows = <<Row(PathOf("span", doc[a].id), 0, PathOf("span", doc[b].id), 0,
                          1, 1, "HIGHLIGHT")>>
    /\ InitRest

SpecHead == HeadInit /\ [][Next]_vars

----------------------------------------------------------------------------
(* Properties of the heading hierarchy.                                    *)

\* The root-level elements the walk visits for a context: the first
\* container of the range and its preceding siblings
Visited(context) == {n \in RootChildren : n <= context.containers[1]}

\* The visited elements with tag hL
HeadingsOfLevel(context, L) ==
    {n \in Visited(context) : Name(n) = HeadingNames[L + 1]}

Nearest(S) == CHOOSE n \in S : \A m \in S : m <= n

\* C11: for every level L in 1..6 the hierarchy maps L to the nearest
\* element hL among the first container and its preceding siblings when
\* there is one and has no entry for L otherwise, and it has no key other
\* than 1..6 and the sentinel
C11_HeadingHierarchy ==
    \A k \in 1..Len(pairs) :
        LET context == pairs[k].context
        IN  /\ \A L \in 1..6 :
                  IF HeadingsOfLevel(context, L) # {}
                  THEN /\ L \in DOMAIN context.headings
                       /\ context.headings[L] = Nearest(HeadingsOfLevel(context, L))
                  ELSE L \notin DOMAIN context.headings
            /\ DOMAIN context.headings \subseteq (1..6) \cup {Sentinel}

\* No element the walk visits is a heading for the search
NoHeadingFound(context) ==
    \A n \in Visited(context) : HeadingLevel(Name(n)) = NoLevel

\* The direct children of the root with non-empty trimmed text
WithText == {n \in RootChildren : Len(Strip(TagText(n))) > 0}

\* C12: when no heading is found the hierarchy has exactly the sentinel
\* entry, and it is the first direct child of the root whose trimmed text
\* is non-empty
C12_FallbackIsFirstChildWithText ==
    \A k \in 1..Len(pairs) :
        LET context == pairs[k].context
        IN  NoHeadingFound(context) =>
                /\ DOMAIN context.headings = {Sentinel}
                /\ context.headings[Sentinel] \in WithText
                /\ \A n \in WithText : context.headings[Sentinel] <= n

\* C13: extract never returns a context whose sentinel entry is an element
\* with empty text: without a heading and without a child with text it fails
C13_NoFallbackWithoutText ==
    \A k \in 1..Len(pairs) :
        LET context == pairs[k].context
        IN  Sentinel \in DOMAIN context.headings =>
                Len(ElementText(context.headings[Sentinel])) > 0

----------------------------------------------------------------------------
(* Properties of the order of the pairs.                                   *)

\* The marked range of pair a begins before the marked range of pair b
BeginsBefore(a, b) ==
    LET sa == a.context.bookmark_start
        sb == b.context.bookmark_start
    IN  \/ TocIndex(a.context.xhtml) < TocIndex(b.context.xhtml)
        \/ /\ a.context.xhtml = b.context.xhtml
           /\ \/ Sourceline(sa) < Sourceline(sb)
              \/ Sourceline(sa) = Sourceline(sb) /\ Sourcepos(sa) < Sourcepos(sb)
              \/ sa = sb /\ a.context.bookmark_start_offset
                                < b.context.bookmark_start_offset

\* C14: in the sorted list a pair whose marked range begins before
\* another's (earlier member, or earlier start anchor in the same member,
\* or smaller start offset at the same start anchor) stands before it
C14_SortedInReadingOrder ==
    Grouped =>
        \A i \in 1..Len(pairs) : \A j \in 1..Len(pairs) :
            BeginsBefore(pairs[i], pairs[j]) => i < j

\* Root child b comes immediately after root child a
ImmediatelyAfter(a, b) ==
    /\ a < b
    /\ ~\E c \in RootChildren : a < c /\ c < b

\* C15: two pairs consecutive in sorted order, of the same member and the
\* same heading result, whose container ranges are adjacent without sharing
\* a container, are in the same group
C15_AdjacentRangesShareGroup ==
    Grouped =>
        \A k \in 1..Len(pairs) - 1 :
            (/\ pairs[k].context.xhtml = pairs[k + 1].context.xhtml
             /\ pairs[k].context.chapter = pairs[k + 1].context.chapter
             /\ ImmediatelyAfter(Last(pairs[k].context.containers),
                                 pairs[k + 1].context.containers[1]))
            => GroupStart(grouped_pairs, k, 0) = GroupStart(grouped_pairs, k + 1, 0)

----------------------------------------------------------------------------
(* The position-reference parser on references built from a triple: a      *)
(* relative file path, a member path and an element id (or none), each of  *)
(* up to RefMaxLen tokens, on either branch of the path join.              *)

RefMaxLen == 2

Strings(alphabet, n) == UNION {[1..m -> alphabet] : m \in 0..n}

\* '/mnt/onboard/' + rel + '!!' + xhtml [+ '#' + element_id]
BuildContentId(rel, xhtml, element_id) ==
    <<"/mnt/onboard/">> \o rel \o <<"!", "!">> \o xhtml
    \o (IF element_id = NoElementId THEN << >> ELSE <<"#">> \o element_id)

ParseInit ==
    /\ doc = << >>
    /\ rows = << >>
    /\ InitMain
    /\ my_words = Idle
    /\ handle = Idle
    /\ call \in [op : {"parse"}, posix : BOOLEAN,
                  rel : Strings({"a", "/", "!"}, RefMaxLen),
                  xhtml : Strings({"x", "#", "!"}, RefMaxLen),
                  element_id : Strings({"i", "#", "!", "\n"}, RefMaxLen)
                               \cup {NoElementId}]
    /\ result = Idle

\* A call of ContentID.parse on the reference built from the triple
ParseContentId ==
    /\ call.op = "parse"
    /\ result = Idle
    /\ result' = ContentIdParse(BuildContentId(call.rel, call.xhtml,
                                               call.element_id), call.posix)
    /\ UNCHANGED <<doc, rows, row_i, pairs, grouped_pairs, group_i,
                   containers_md, unquoted_pair_indices, removed_log, written,
                   pc, log, volumes, my_words, handle, call>>

SpecParse == ParseInit /\ [][ParseContentId]_vars

\* s holds "!!"
HasBangs(s) == ScanBangs(s, 1) # 0

\* The triple comes back from the parser
RoundTrip ==
    /\ result.ok
    /\ result.file = FormatPath(call.rel, call.posix)
    /\ result.xhtml = call.xhtml
    /\ result.element_id = call.element_id

Parsed == call.op = "parse" /\ result # Idle

\* C16 as stated: parsing the reference built from any triple gives back
\* the member path, the element id and the joined file path
C16_RoundTripEveryTriple == Parsed => RoundTrip

\* C16 amended: the triple comes back when it holds no line break, the
\* member path holds no "#" and does not begin with "!", and neither the
\* member path nor the element id holds "!!"
C16_RoundTripUnambiguous ==
    (/\ Parsed
     /\ \A k \in 1..Len(call.element_id) : call.element_id[k] # "\n"
     /\ FirstHash(call.xhtml, 1) = 0
     /\ ~(Len(call.xhtml) > 0 /\ call.xhtml[1] = "!")
     /\ ~HasBangs(call.xhtml)
     /\ ~HasBangs(call.element_id))
    => RoundTrip

\* Witness of C16: a reference whose file path holds "!!" and a separator
\* and whose element id holds "#" was parsed back on the non-POSIX branch
C16_Witness ==
    /\ Parsed
    /\ ~call.posix
    /\ call.rel = <<"!", "!">>
    /\ call.xhtml = <<"x">>
    /\ call.element_id = <<"#", "i">>
    /\ RoundTrip

----------------------------------------------------------------------------
(* kobo.py: the archive handle and its caches.  read and read_html are     *)
(* called up to CacheMaxCalls times with member paths of the archive; the  *)
(* cache key of a path is hash(path), a number of bounded width that       *)
(* differs from run to run.                                                *)

CacheMaxCalls == 3
HashMax == 3

MemberPaths == {"a.xhtml", "b.xhtml", "content.opf"}

\* ZipFile.read(zip_name): the bytes of the member
ZipRead(zip_name) == <<"bytes", zip_name>>

\* Element.parse_html(bytes.decode(encoding)): the tree of the bytes
ParseHtml(bytes) == <<"tree", bytes[2]>>

\* KEPUB.read on the caches: what it returns and the handle afterwards
Read(h, zip_name) ==
    LET cache_key == h.hash[zip_name]
    IN  IF cache_key \in DOMAIN h.zip_cache
        THEN [bytes |-> h.zip_cache[cache_key], handle |-> h]
        ELSE LET bytes == ZipRead(zip_name)
             IN  [bytes |-> bytes,
                  handle |-> [h EXCEPT !.zip_cache = (cache_key :> bytes) @@ @,
                                       !.zip_reads = Append(@, zip_name)]]

\* KEPUB.read_html
ReadHtml(h, zip_name) ==
    LET cache_key == h.hash[zip_name]
    IN  IF cache_key \in DOMAIN h.html_cache
        THEN [parsed_html |-> h.html_cache[cache_key], handle |-> h]
        ELSE LET r == Read(h, zip_name)
                 parsed_html == ParseHtml(r.bytes)
             IN  [parsed_html |-> parsed_html,
                  handle |-> [r.handle EXCEPT
                                 !.html_cache = (cache_key :> parsed_html) @@ @]]

\* Every entry of cache a is in cache b, unchanged
Kept(a, b) == \A key \in DOMAIN a : key \in DOMAIN b /\ b[key] = a[key]

\* The handle after a call, with the call and what it returned logged
Logged(h, after, fn, zip_name, returned) ==
    [after EXCEPT
        !.calls = Append(@, [fn |-> fn, zip_name |-> zip_name,
                             returned |-> returned]),
        !.kept = /\ @
                 /\ Kept(h.zip_cache, after.zip_cache)
                 /\ Kept(h.html_cache, after.html_cache)]

CacheInit ==
    /\ doc = << >>
    /\ rows = << >>
    /\ InitMain
    /\ my_words = Idle
    /\ call = Idle
    /\ result = Idle
    /\ \E hash \in [MemberPaths -> 0..HashMax] :
          handle = [op |-> "open", hash |-> hash, zip_cache |-> << >>,
                    html_cache |-> << >>, zip_reads |-> << >>, calls |-> << >>,
                    kept |-> TRUE]

CallRead ==
    /\ handle.op = "open"
    /\ Len(handle.calls) < CacheMaxCalls
    /\ \E zip_name \in MemberPaths :
          LET r == Read(handle, zip_name)
          IN  handle' = Logged(handle, r.handle, "read", zip_name, r.bytes)
    /\ UNCHANGED <<doc, rows, row_i, pairs, grouped_pairs, group_i,
                   containers_md, unquoted_pair_indices, removed_log, written,
                   pc, log, volumes, my_words, call, result>>

CallReadHtml ==
    /\ handle.op = "open"
    /\ Len(handle.calls) < CacheMaxCalls
    /\ \E zip_name \in MemberPaths :
          LET r == ReadHtml(handle, zip_name)
          IN  handle' = Logged(handle, r.handle, "read_html", zip_name,
                               r.parsed_html)
    /\ UNCHANGED <<doc, rows, row_i, pairs, grouped_pairs, group_i,
                   containers_md, unquoted_pair_indices, removed_log, written,
                   pc, log, volumes, my_words, call, result>>

CacheNext == CallRead \/ CallReadHtml

SpecCache == CacheInit /\ [][CacheNext]_vars

\* C17: every call for a member path returns the content of that member
\* (its bytes, or their tree), the archive is read at most once per member
\* path, and no cache entry is ever removed or replaced
C17_CacheServesMemberContent ==
    handle.op = "open" =>
        /\ \A k \in 1..Len(handle.calls) :
              LET c == handle.calls[k]
              IN  c.returned = IF c.fn = "read" THEN ZipRead(c.zip_name)
                               ELSE ParseHtml(ZipRead(c.zip_name))
        /\ \A m \in MemberPaths :
              Cardinality({k \in 1..Len(handle.zip_reads) :
                              handle.zip_reads[k] = m}) <= 1
        /\ handle.kept

----------------------------------------------------------------------------
(* Skipped volumes: up to SkipMaxRows rows, each of the volume on the      *)
(* device, of a KEPUB whose file is missing, of a file that is no KEPUB,   *)
(* or of a volume whose identifier is no file URL.                         *)

SkipMaxRows == 3

VolumeIds ==
    {TheVolume,
     <<"file:///mnt/onboard/", "gone", ".kepub.epub">>,
     <<"file:///mnt/onboard/", "notes", ".pdf">>,
     <<"9f1c2d3e-uuid">>}

SkipDoc == Assemble(<<TplP(KoboId(1), Txt(1))>>, <<1>>, 1)

SkipInit ==
    /\ doc = SkipDoc
    /\ \E vs \in SeqsUpTo(VolumeIds, SkipMaxRows) :
          rows = [k \in 1..Len(vs) |->
                    [Row(PathOf("span", KoboId(1)), 0, PathOf("span", KoboId(1)), 1,
                         1, 1, "HIGHLIGHT") EXCEPT !.volume_id = vs[k]]]
    /\ InitRest

SpecSkip == SkipInit /\ [][Next]_vars

\* The volume id names a supported container: its filename has the suffix
HasSuffix(volume_id) == volume_id[Len(volume_id)] = ".kepub.epub"

\* The record is to be skipped: no supported container, or no file
Skipped(volume_id) ==
    \/ ~HasSuffix(volume_id)
    \/ VolumeIdFile(volume_id).ok /\ VolumeIdFile(volume_id).path \notin Files

\* The messages printed for the volume id
Messages(volume_id) ==
    {k \in 1..Len(printed) : printed[k][2] = volume_id}

\* C18: a record of a volume that is no supported container, or whose file
\* is missing, adds no pair and does not stop the run, and once the
\* records are read the message for its volume id was printed exactly once
C18_SkippedVolumes ==
    /\ \A k \in 1..Len(pairs) : ~Skipped(pairs[k].bookmark.volume_id)
    /\ pc = "resolve_failed" => ~Skipped(rows[row_i].volume_id)
    /\ (pc # "resolve_failed" /\ row_i > Len(rows)) =>
           \A k \in 1..Len(rows) :
               Skipped(rows[k].volume_id) =>
                   Cardinality(Messages(rows[k].volume_id)) = 1

----------------------------------------------------------------------------
(* kobo.py: the table of contents of the package document.  The manifest   *)
(* is the sequence of its item elements, the spine the sequence of its     *)
(* itemref elements, each attribute a string or NoAttr when absent.        *)

NoAttr == "(absent)"

\* The first loop: manifest_dict[id] = href, get_attr asserting the attribute
RECURSIVE ManifestDict(_, _, _)
ManifestDict(items, k, manifest_dict) ==
    IF k > Len(items) THEN [ok |-> TRUE, dict |-> manifest_dict]
    ELSE IF items[k].id = NoAttr \/ items[k].href = NoAttr THEN Failed
    ELSE ManifestDict(items, k + 1,
                      (items[k].id :> items[k].href) @@ manifest_dict)

\* The second loop: the href of every idref that is a key, in spine order
RECURSIVE SpineLoop(_, _, _, _)
SpineLoop(itemrefs, k, manifest_dict, table_of_contents) ==
    IF k > Len(itemrefs) THEN [ok |-> TRUE, toc |-> table_of_contents]
    ELSE IF itemrefs[k] = NoAttr THEN Failed
    ELSE SpineLoop(itemrefs, k + 1, manifest_dict,
                   IF itemrefs[k] \in DOMAIN manifest_dict
                   THEN Append(table_of_contents, manifest_dict[itemrefs[k]])
                   ELSE table_of_contents)

\* The hrefs of the items the spine references, in manifest order
TableOfContentsManifestOrder(manifest, spine) ==
    IF \E k \in 1..Len(manifest) :
           manifest[k].id = NoAttr \/ manifest[k].href = NoAttr
    THEN Failed
    ELSE IF \E k \in 1..Len(spine) : spine[k] = NoAttr THEN Failed
    ELSE LET referenced == SelectSeq(manifest,
                 LAMBDA item : \E k \in 1..Len(spine) : spine[k] = item.id)
         IN  [ok |-> TRUE,
              toc |-> [k \in 1..Len(referenced) |-> referenced[k].href]]

\* KEPUB._table_of_contents
TableOfContents(manifest, spine) ==
    LET d == ManifestDict(manifest, 1, << >>)
    IN  IF ~d.ok THEN Failed ELSE SpineLoop(spine, 1, d.dict, << >>)

TocMaxItems == 2
TocMaxSpine == 3

ItemIds == {"a", "b"}
Hrefs == {"x.xhtml", "y.xhtml"}

TocInit ==
    /\ doc = << >>
    /\ rows = << >>
    /\ InitMain
    /\ my_words = Idle
    /\ handle = Idle
    /\ call \in [op : {"toc"},
                  manifest : Strings([id : ItemIds \cup {NoAttr},
                                      href : Hrefs \cup {NoAttr}], TocMaxItems),
                  spine : Strings(ItemIds \cup {"c", NoAttr}, TocMaxSpine)]
    /\ result = Idle

\* KEPUB.open building the table of contents of the package document
CallTableOfContents ==
    /\ call.op = "toc"
    /\ result = Idle
    /\ result' = TableOfContents(call.manifest, call.spine)
    /\ UNCHANGED <<doc, rows, row_i, pairs, grouped_pairs, group_i,
                   containers_md, unquoted_pair_indices, removed_log, written,
                   pc, log, volumes, my_words, handle, call>>

SpecToc == TocInit /\ [][CallTableOfContents]_vars

\* The ids of the manifest, and the paths the manifest gives for an id
ManifestIds(manifest) == {manifest[k].id : k \in 1..Len(manifest)}
ManifestPaths(manifest, id) ==
    {manifest[k].href : k \in {j \in 1..Len(manifest) : manifest[j].id = id}}

\* The positions of the spine whose id has a manifest entry
Listed(manifest, spine) ==
    {k \in 1..Len(spine) : spine[k] \in ManifestIds(manifest)}

\* The j-th of these positions, counted in spine order
NthListed(manifest, spine, j) ==
    CHOOSE k \in Listed(manifest, spine) :
        Cardinality({i \in Listed(manifest, spine) : i <= k}) = j

\* C19: the table of contents has one entry for every spine position whose
\* id has a manifest entry, in spine order, each entry a manifest path of
\* that id; so ids without a manifest entry contribute nothing and manifest
\* items the spine does not reference do not appear
C19_TocIsSpineOrderOfManifestPaths ==
    (call.op = "toc" /\ result # Idle /\ result.ok) =>
        /\ Len(result.toc) = Cardinality(Listed(call.manifest, call.spine))
        /\ \A j \in 1..Len(result.toc) :
              result.toc[j] \in
                  ManifestPaths(call.manifest,
                      call.spine[NthListed(call.manifest, call.spine, j)])

\* A table of contents of two entries in an order other than the manifest's,
\* built from a spine that also names an id without a manifest entry and
\* from a manifest with an item the spine does not reference
C19_Witness ==
    /\ call.op = "toc" /\ result # Idle /\ result.ok
    /\ call.manifest = <<[id |-> "a", href |-> "x.xhtml"],
                         [id |-> "b", href |-> "y.xhtml"]>>
    /\ call.spine = <<"b", "c", "a">>
    /\ result.toc = <<"y.xhtml", "x.xhtml">>

----------------------------------------------------------------------------
(* Tables: a paragraph, a table and a paragraph, the table with the header *)
(* cell and the body cell in two rows of the body, in one row, with the    *)
(* header row in a thead, without a tbody, or with the cell texts in       *)
(* spans; one highlight or up to TableMaxPairs of them.                    *)

TableMaxPairs == 1

Cell(up, name, text) == El(up, name, NoId, FALSE, text)

TplTableTwoRows(a, b) ==
    <<Cell(0, "table", << >>), Cell(1, "tbody", << >>),
      Cell(2, "tr", << >>), Cell(3, "th", a),
      Cell(2, "tr", <<"\n">>), Cell(5, "td", b)>>
TplTableOneRow(a, b) ==
    <<Cell(0, "table", << >>), Cell(1, "tbody", << >>),
      Cell(2, "tr", << >>), Cell(3, "th", a), Cell(3, "td", b)>>
TplTableHead(a, b) ==
    <<Cell(0, "table", << >>), Cell(1, "thead", << >>),
      Cell(2, "tr", << >>), Cell(3, "th", a),
      Cell(1, "tbody", << >>), Cell(5, "tr", << >>), Cell(6, "td", b)>>
TplTableNoBody(a, b) ==
    <<Cell(0, "table", << >>),
      Cell(1, "tr", << >>), Cell(2, "th", a),
      Cell(1, "tr", << >>), Cell(4, "td", b)>>
TplTableSpans(a, b) ==
    <<Cell(0, "table", << >>), Cell(1, "tbody", << >>),
      Cell(2, "tr", << >>), Cell(3, "th", << >>),
      El(4, "span", KoboId(2), FALSE, a),
      Cell(2, "tr", << >>), Cell(6, "td", << >>),
      El(7, "span", KoboId(3), FALSE, b)>>

TableTemplates ==
    UNION {{TplTableTwoRows(a, b), TplTableOneRow(a, b), TplTableHead(a, b),
            TplTableNoBody(a, b), TplTableSpans(a, b)} :
           a \in {<<"A">>, <<" ", "A">>}, b \in {<<"B">>, <<"B", "\n">>}}

TableDocs ==
    {Assemble(<<TplP(KoboId(1), <<"w">>), t, TplP(KoboId(4), <<"x">>)>>,
              <<1, 2, 3>>, 3) : t \in TableTemplates}

\* Highlights from the span of one id to the span of a later or the same id
TableRanges == {r \in [s : 1..4, e : 1..4] : r.s <= r.e}

TableInit ==
    /\ doc \in TableDocs
    /\ \E rs \in SeqsUpTo(TableRanges, TableMaxPairs) :
          rows = [k \in 1..Len(rs) |->
                    Row(PathOf("span", KoboId(rs[k].s)), 0,
                        PathOf("span", KoboId(rs[k].e)), 1, 1, 1, "HIGHLIGHT")]
    /\ InitRest

SpecTable == TableInit /\ [][Next]_vars

\* The characters of a rendered container
MdText(md) == [j \in 1..Len(md) |-> md[j][1]]

\* A table whose rows are the tr children of its one tbody, with one th cell
\* of text 'A' and one td cell of text 'B' and no other cell
HeaderAndOneBodyRow(n) ==
    /\ Name(n) = "table"
    /\ Len(FindAll(n, "tbody")) = 1
    /\ \A tr \in Nodes : Under(tr, n) /\ Name(tr) = "tr" =>
           Name(Parent(tr)) = "tbody"
    /\ \A c \in Nodes : Under(c, n) /\ Name(c) \in {"th", "td"} =>
           Name(Parent(c)) = "tr"
    /\ Len(FindAll(n, "th")) = 1
    /\ ElementText(FindAll(n, "th")[1]) = <<"A">>
    /\ Len(FindAll(n, "td")) = 1
    /\ ElementText(FindAll(n, "td")[1]) = <<"B">>

\* No highlight of the group begins or ends in the container
NoAnchorIn(n, group) ==
    \A k \in 1..Len(group.pairs) :
        /\ ~Under(group.pairs[k].context.bookmark_start, n)
        /\ ~Under(group.pairs[k].context.bookmark_end, n)

ThreeLines ==
    <<"|", " ", "A", " ", "|", "\n",
      "|", " ", "-", "-", "-", " ", "|", "\n",
      "|", " ", "B", " ", "|", "\n">>

\* C20: a rendered table with the header cell 'A' and one body row with the
\* single cell 'B' is the three lines '| A |', '| --- |', '| B |', with no
\* empty row for the row that carries the header cell
C20_TableIsThreeLines ==
    \A g \in 1..Len(written) :
        \A k \in 1..Len(written[g]) :
            LET n == grouped_pairs[g].containers[k]
            IN  (HeaderAndOneBodyRow(n) /\ NoAnchorIn(n, grouped_pairs[g])) =>
                    MdText(written[g][k]) = ThreeLines

----------------------------------------------------------------------------
(* Quoted blocks: three root elements on three lines, the first a          *)
(* paragraph of one or two lines of text or with an image before or after  *)
(* its span, the second a table or a paragraph, the third a paragraph of   *)
(* one or two lines or with an image after its span; up to QuoteMaxPairs   *)
(* notes and highlights.                                                   *)

QuoteMaxPairs == 2

TplPImgAfter(id, text) ==
    <<El(0, "p", NoId, FALSE, << >>), El(1, "span", id, FALSE, text),
      El(1, "img", NoId, FALSE, << >>)>>
TplPImgBefore(id, text) ==
    <<El(0, "p", NoId, FALSE, << >>), El(1, "img", NoId, FALSE, << >>),
      El(1, "span", id, FALSE, text)>>

QuoteDocs ==
    {Assemble(<<first, second, third>>, <<1, 2, 3>>, 3) :
        first \in {TplP(KoboId(1), <<"w">>), TplP(KoboId(1), <<"w", "\n", "x">>),
                   TplPImgAfter(KoboId(1), <<"w">>),
                   TplPImgBefore(KoboId(1), <<"w">>)},
        second \in {TplTableTwoRows(<<"A">>, <<"B">>), TplP(KoboId(2), <<"y">>)},
        third \in {TplP(KoboId(3), <<"z">>), TplP(KoboId(3), <<"z", "\n", "v">>),
                   TplPImgAfter(KoboId(3), <<"z">>)}}

QuoteRanges ==
    [s : {1}, e : {1, 3}, type : BookmarkTypes]
    \cup [s : {3}, e : {3}, type : BookmarkTypes]

QuoteInit ==
    /\ doc \in QuoteDocs
    /\ \E rs \in SeqsUpTo(QuoteRanges, QuoteMaxPairs) :
          rows = [k \in 1..Len(rs) |->
                    Row(PathOf("span", KoboId(rs[k].s)), 0,
                        PathOf("span", KoboId(rs[k].e)), 1, 1, 1, rs[k].type)]
    /\ InitRest

SpecQuote == QuoteInit /\ [][Next]_vars

\* The quoted blocks written to a file, in order
Blocks(file) == SelectSeq(file.writes, LAMBDA w : w.kind = "bookmark")

\* The quoted block of the g-th rendered group of the volume main is at
Block(g) == Blocks(files[Len(files)])[g].text

\* The part of a quoted block before its metadata blocks
QuotedContainers(block) ==
    LET feet == {k \in 1..Len(block) : block[k][2] = "foot"}
    IN  SubSeq(block, 1, (CHOOSE k \in feet : \A j \in feet : k <= j) - 1)

\* The non-empty lines of a text
NonEmptyLines(md) == SelectSeq(SplitLines(md), LAMBDA line : Len(line) # 0)

\* The non-empty lines of the rendered containers of a group, in order
RECURSIVE RenderedLines(_, _)
RenderedLines(mds, k) ==
    IF k > Len(mds) THEN << >>
    ELSE NonEmptyLines(mds[k]) \o RenderedLines(mds, k + 1)

\* The lines of the quoted containers of a block but the separator lines
QuotedLines(block) ==
    SelectSeq(NonEmptyLines(QuotedContainers(block)),
              LAMBDA line : MdText(line) # <<">">>)

\* C21: in the quoted block of a group the non-empty lines of the rendered
\* containers appear in order, each behind the marker '> ', and the quoted
\* containers hold no empty line
C21_EveryLineIsQuoted ==
    \A g \in 1..Len(written) :
        LET rendered == RenderedLines(written[g], 1)
            quoted == QuotedLines(Block(g))
            pieces == SplitLines(QuotedContainers(Block(g)))
        IN  /\ Len(quoted) = Len(rendered)
            /\ \A i \in 1..Len(rendered) :
                  MdText(quoted[i]) = <<">", " ">> \o MdText(rendered[i])
            /\ \A i \in 1..(Len(pieces) - 1) : Len(pieces[i]) # 0

\* The part of a quoted block from its first metadata block on, in lines
MetadataLines(block) ==
    NonEmptyLines(SubSeq(block, Len(QuotedContainers(block)) + 1, Len(block)))

\* The lines that open a metadata block: '> ___'
Rules(lines) ==
    {k \in 1..Len(lines) : MdText(lines[k]) = <<">", " ", "_", "_", "_">>}

\* The lines of the i-th metadata block: from the i-th rule to the next
MetadataBlock(lines, i) ==
    LET first == CHOOSE k \in Rules(lines) :
                     Cardinality({j \in Rules(lines) : j <= k}) = i
        later == {k \in Rules(lines) : k > first}
        last == IF later = {} THEN Len(lines)
                ELSE (CHOOSE k \in later : \A j \in later : k <= j) - 1
    IN  SubSeq(lines, first, last)

\* The line is the note text line
IsNoteLine(line) ==
    /\ Len(line) >= 6
    /\ SubSeq(MdText(line), 1, 6) = <<">", ">", " ", "**", "Anotacion", "**">>

\* The rendered containers of a group as one text
RECURSIVE Flatten(_, _)
Flatten(mds, k) ==
    IF k > Len(mds) THEN << >> ELSE mds[k] \o Flatten(mds, k + 1)

\* The label of the inline superscript of the i-th pair of a group: what
\* stands between '[' and ']' in the marker spliced in at its end boundary
SupLabel(mds, i) ==
    LET marker == MdText(SelectSeq(Flatten(mds, 1),
                                   LAMBDA c : c[2] = "close" /\ c[3] = i))
        from == CHOOSE k \in 1..Len(marker) : marker[k] = "["
        to == CHOOSE k \in 1..Len(marker) : marker[k] = "]"
    IN  SubSeq(marker, from + 1, to - 1)

\* The label of a metadata block: what its second line holds between '>> '
\* and the trailing ' \'
BlockLabel(lines) == SubSeq(MdText(lines[2]), 4, Len(lines[2]) - 2)

\* C22: the quoted block of a group of n pairs ends with n metadata blocks
\* after the quoted containers; the i-th has the label IK.i counted from 1,
\* which is the label of the superscript spliced in at the end boundary of
\* the i-th pair, and it holds the note line exactly when that pair is a NOTE
C22_MetadataBlocksFollowPairs ==
    \A g \in 1..Len(written) :
        LET g_pairs == grouped_pairs[g].pairs
            lines == MetadataLines(Block(g))
        IN  /\ Cardinality(Rules(lines)) = Len(g_pairs)
            /\ Len(g_pairs) > 0 => 1 \in Rules(lines)
            /\ \A i \in 1..Len(g_pairs) :
                  LET block == MetadataBlock(lines, i)
                  IN  /\ BlockLabel(block) = <<"I", "K", ".", Digits[i]>>
                      /\ BlockLabel(block) = SupLabel(written[g], i)
                      /\ (\E k \in 1..Len(block) : IsNoteLine(block[k]))
                            <=> g_pairs[i].bookmark.bookmark_type = "NOTE"

\* A written block of a group of two pairs, a NOTE and a HIGHLIGHT
C22_Witness ==
    \E g \in 1..Len(written) :
        /\ Len(grouped_pairs[g].pairs) = 2
        /\ grouped_pairs[g].pairs[1].bookmark.bookmark_type = "NOTE"
        /\ grouped_pairs[g].pairs[2].bookmark.bookmark_type = "HIGHLIGHT"
        /\ Cardinality(Rules(MetadataLines(Block(g)))) = 2

----------------------------------------------------------------------------
(* File names: every choice of present and absent title, author, publisher *)
(* and timestamp.                                                          *)

FilenameInit ==
    /\ doc = << >>
    /\ rows = << >>
    /\ InitMain
    /\ my_words = Idle
    /\ handle = Idle
    /\ call \in [op : {"filename"},
                  metadata : [title : {NoMetadata, <<"T">>, <<"U", "V">>},
                              author : {NoMetadata, <<"A">>, <<"B">>},
                              publisher : {NoMetadata, <<"P">>, <<"Q">>},
                              timestamp : {NoMetadata, <<"1999", "12", "31">>,
                                           <<"2001", "01", "01">>}]]
    /\ result = Idle

\* A call of MarkdownFormatter.filename
CallFilename ==
    /\ call.op = "filename"
    /\ result = Idle
    /\ result' = Filename(call.metadata)
    /\ UNCHANGED <<doc, rows, row_i, pairs, grouped_pairs, group_i,
                   containers_md, unquoted_pair_indices, removed_log, written,
                   pc, log, volumes, my_words, handle, call>>

SpecFilename == FilenameInit /\ [][CallFilename]_vars

\* The present components in the order author, title, publisher, year
Present(metadata) ==
    SelectSeq(<<metadata.author, metadata.title, metadata.publisher,
                IF metadata.timestamp = NoMetadata THEN NoMetadata
                ELSE <<metadata.timestamp[1]>>>>,
              LAMBDA component : component # NoMetadata)

\* The components joined by '. '
RECURSIVE JoinComponents(_, _)
JoinComponents(components, k) ==
    IF k > Len(components) THEN << >>
    ELSE (IF k > 1 THEN <<".", " ">> ELSE << >>)
         \o components[k] \o JoinComponents(components, k + 1)

\* C23: for every choice of present and absent components filename returns
\* the present ones in the order author, title, publisher, year, joined by
\* '. ' and followed by '.md'
C23_FilenameOfPresentComponents ==
    (call.op = "filename" /\ result # Idle) =>
        /\ result.ok
        /\ result.name = JoinComponents(Present(call.metadata), 1) \o <<".md">>

----------------------------------------------------------------------------
(* kobo.py: the timestamps of a row.  A DateModified string is a day, a    *)
(* clock and a UTC offset; clocks are counted in hours from the start of   *)
(* the first day, offsets in hours.                                        *)

DateMaxDay == 2
HoursOfDay == 24

\* datetime.strptime(date_modified, '%Y-%m-%dT%H:%M:%S%z'): the clock value
\* of the string and the offset it names
Strptime(date_modified) ==
    [clock |-> (date_modified.day - 1) * HoursOfDay + date_modified.hour,
     utcoffset |-> IF date_modified.sign = "-" THEN 0 - date_modified.offset
                   ELSE date_modified.offset]

\* datetime.replace(tzinfo=timezone.utc): the same clock value under UTC
ReplaceTzinfoUtc(timestamp) == [timestamp EXCEPT !.utcoffset = 0]

\* The date_modified argument of BookmarkTable(...) in select_all
DateModified(date_modified) == ReplaceTzinfoUtc(Strptime(date_modified))

DateInit ==
    /\ doc = << >>
    /\ rows = << >>
    /\ InitMain
    /\ my_words = Idle
    /\ handle = Idle
    /\ call \in [op : {"date_modified"},
                  date_modified : [day : 1..DateMaxDay, hour : 0..(HoursOfDay - 1),
                                   sign : {"+", "-"}, offset : {0, 1, 2, 5}]]
    /\ result = Idle

\* One row of select_all: its DateModified is read
ReadDateModified ==
    /\ call.op = "date_modified"
    /\ result = Idle
    /\ result' = DateModified(call.date_modified)
    /\ UNCHANGED <<doc, rows, row_i, pairs, grouped_pairs, group_i,
                   containers_md, unquoted_pair_indices, removed_log, written,
                   pc, log, volumes, my_words, handle, call>>

SpecDate == DateInit /\ [][ReadDateModified]_vars

\* The offset d the input names, and its clock value
InputOffset == IF call.date_modified.sign = "-" THEN 0 - call.date_modified.offset
               ELSE call.date_modified.offset
InputClock ==
    (call.date_modified.day - 1) * HoursOfDay + call.date_modified.hour

\* C24: the stored modification timestamp is under UTC and its clock value
\* is the input clock value minus the input's UTC offset d
C24_ModifiedIsSameInstant ==
    (call.op = "date_modified" /\ result # Idle) =>
        /\ result.utcoffset = 0
        /\ result.clock = InputClock - InputOffset

----------------------------------------------------------------------------
(* s_my_words.py: the vocabulary-to-flashcard run.  my_words holds where   *)
(* main is, the configured DICT_SUFFIX_DECK, the rows of the word list,    *)
(* main's locals and the requests sent to the flashcard service.           *)

WordsMaxRows == 2

DeckNames == {"RAE", "OED"}

\* DICT_SUFFIX_DECK as configured: suffix -> deck name
Configurations == {("-es" :> "RAE"), ("-es" :> "RAE") @@ ("-en" :> "OED")}

WordRows == [text : {"a", "b"}, dict_suffix : {"-es", "-en", "-fr"}]

\* The deck names not to be set aside: none
MissingNone(dict_suffix_deck, anki_decks) == {}

\* The configured decks that are not among the deck names of the service
MissingDecks(dict_suffix_deck, anki_decks) ==
    {dict_suffix_deck[suffix] : suffix \in DOMAIN dict_suffix_deck} \ anki_decks

\* The keys of word_rows_by_dict in insertion order: the suffixes of the
\* rows in the order they first appear
RECURSIVE SuffixKeys(_, _, _)
SuffixKeys(word_rows, k, keys) ==
    IF k > Len(word_rows) THEN keys
    ELSE SuffixKeys(word_rows, k + 1,
                    IF \E j \in 1..Len(keys) : keys[j] = word_rows[k].dict_suffix
                    THEN keys ELSE Append(keys, word_rows[k].dict_suffix))

\* notes[deck_name] = []: the entry is emptied, or added behind the others
ResetNotes(notes, deck_name) ==
    IF \E j \in 1..Len(notes) : notes[j].deck = deck_name
    THEN [j \in 1..Len(notes) |->
             IF notes[j].deck = deck_name THEN [notes[j] EXCEPT !.list = << >>]
             ELSE notes[j]]
    ELSE Append(notes, [deck |-> deck_name, list |-> << >>])

AppendNotes(notes, deck_name, list) ==
    [j \in 1..Len(notes) |->
        IF notes[j].deck = deck_name THEN [notes[j] EXCEPT !.list = @ \o list]
        ELSE notes[j]]

\* The notes of all decks in the order the last loop of main visits them
RECURSIVE AllNotes(_, _)
AllNotes(notes, k) ==
    IF k > Len(notes) THEN << >>
    ELSE [j \in 1..Len(notes[k].list) |->
             [deck |-> notes[k].deck, text |-> notes[k].list[j]]]
         \o AllNotes(notes, k + 1)

WordsInit ==
    /\ doc = << >>
    /\ rows = << >>
    /\ InitMain
    /\ handle = Idle
    /\ call = Idle
    /\ result = Idle
    /\ \E config \in Configurations, word_rows \in Strings(WordRows, WordsMaxRows) :
          my_words = [op |-> "main", at |-> "decks", config |-> config,
                      word_rows |-> word_rows, anki_decks |-> {}, exit_code |-> 0,
                      suffix_i |-> 1, notes |-> << >>, note_i |-> 1,
                      requests |-> << >>]

main_vars == <<doc, rows, row_i, pairs, grouped_pairs, group_i, containers_md,
               unquoted_pair_indices, removed_log, written, pc, log, volumes,
               handle, call, result>>

\* The head of main (s_my_words.py:26-38): the deck names are requested and
\* main returns when a configured deck is not among them
CheckDecks ==
    /\ my_words.op = "main" /\ my_words.at = "decks"
    /\ \E anki_decks \in SUBSET DeckNames :
          LET missing == MissingDecks(my_words.config, anki_decks)
              exit_code == IF missing # {} THEN 1 ELSE 0
          IN  my_words' = [my_words EXCEPT
                              !.requests = Append(@, [action |-> "deckNames"]),
                              !.anki_decks = anki_decks,
                              !.exit_code = exit_code,
                              !.at = IF exit_code # 0 THEN "returned"
                                     ELSE "create"]
    /\ UNCHANGED main_vars

\* One pass of the loop over the suffixes (s_my_words.py:47-64): the rows
\* of a suffix without a deck are passed over, for the others a note is
\* created from every row the dictionary has an entry for
CreateNotes ==
    /\ my_words.op = "main" /\ my_words.at = "create"
    /\ LET keys == SuffixKeys(my_words.word_rows, 1, << >>)
       IN  IF my_words.suffix_i > Len(keys)
           THEN my_words' = [my_words EXCEPT !.at = "send"]
           ELSE LET dict_suffix == keys[my_words.suffix_i]
                    of_suffix == SelectSeq(my_words.word_rows,
                                     LAMBDA w : w.dict_suffix = dict_suffix)
                IN  IF dict_suffix \notin DOMAIN my_words.config
                    THEN my_words' = [my_words EXCEPT !.suffix_i = @ + 1]
                    ELSE \E found \in SUBSET (1..Len(of_suffix)) :
                            LET deck_name == my_words.config[dict_suffix]
                                created == SelectSeq(
                                    [j \in 1..Len(of_suffix) |->
                                        IF j \in found THEN of_suffix[j].text
                                        ELSE "(None)"],
                                    LAMBDA text : text # "(None)")
                            IN  my_words' = [my_words EXCEPT
                                    !.suffix_i = @ + 1,
                                    !.notes = AppendNotes(
                                                  ResetNotes(@, deck_name),
                                                  deck_name, created)]
    /\ UNCHANGED main_vars

\* One pass of the last loop (s_my_words.py:66-79): the note is looked up
\* in its deck and added or updated; more than one hit fails the assertion
SendNote ==
    /\ my_words.op = "main" /\ my_words.at = "send"
    /\ LET all == AllNotes(my_words.notes, 1)
       IN  IF my_words.note_i > Len(all)
           THEN my_words' = [my_words EXCEPT !.at = "returned"]
           ELSE LET note == all[my_words.note_i]
                    find == [action |-> "findNotes", deck |-> note.deck,
                             text |-> note.text]
                IN  \E hits \in 0..2 :
                       my_words' =
                          IF hits > 1
                          THEN [my_words EXCEPT !.requests = Append(@, find),
                                                !.at = "failed"]
                          ELSE [my_words EXCEPT
                                   !.requests = @ \o <<find,
                                       [action |-> IF hits = 0 THEN "addNote"
                                                   ELSE "updateNoteFields",
                                        deck |-> note.deck, text |-> note.text]>>,
                                   !.note_i = @ + 1]
    /\ UNCHANGED main_vars

WordsNext == CheckDecks \/ CreateNotes \/ SendNote

SpecWords == WordsInit /\ [][WordsNext]_vars

\* A configured deck is missing from the deck names the service returned
DeckMissing ==
    /\ my_words.op = "main" /\ my_words.at # "decks"
    /\ \E suffix \in DOMAIN my_words.config :
          my_words.config[suffix] \notin my_words.anki_decks

\* The requests of the run that write
Writes ==
    {k \in 1..Len(my_words.requests) :
        my_words.requests[k].action \in {"addNote", "updateNoteFields"}}

\* C25: when a configured deck is missing from the deck names returned,
\* the run has ended with a non-zero exit code and has sent no addNote and
\* no updateNoteFields request
C25_MissingDeckAbortsBeforeWrites ==
    DeckMissing =>
        /\ my_words.at = "returned"
        /\ my_words.exit_code # 0
        /\ Writes = {}

\* The run has ended for a missing deck although the word list holds a row
\* of a configured suffix, and only the deck names were requested
C25_Witness ==
    /\ DeckMissing
    /\ my_words.at = "returned"
    /\ \E k \in 1..Len(my_words.word_rows) :
          my_words.word_rows[k].dict_suffix \in DOMAIN my_words.config
    /\ my_words.requests = <<[action |-> "deckNames"]>>

----------------------------------------------------------------------------
(* Images in the containers of a group.                                    *)

\* The elements of the containers of a group
InGroup(group) ==
    {n \in Nodes : \E k \in 1..Len(group.containers) :
                      n = group.containers[k] \/ Under(n, group.containers[k])}

\* The names _format_fp and _format_table have a case for
FormattedNames ==
    {"h1", "h2", "h3", "h4", "h5", "h6", "a", "p", "img", "table", "span",
     "div", "tbody", "tr", "th", "td"}

\* The rendering of the group at hand has stopped with no pair pending,
\* which among elements that all have a case only the assertion of
\* _format_img does
ImgWithoutPendingPair ==
    /\ pc = "render_failed"
    /\ unquoted_pair_indices = {}
    /\ \A n \in InGroup(grouped_pairs[group_i]) : Name(n) \in FormattedNames
    /\ \E n \in InGroup(grouped_pairs[group_i]) : Name(n) = "img"

\* C26: while a group is rendered no img element is reached with an empty
\* pending set, so the assertion of _format_img never fails
C26_ImgHasPendingPair == ~ImgWithoutPendingPair

----------------------------------------------------------------------------
(* Output files: three paragraphs on three lines; up to FilesMaxRows rows, *)
(* each of a span of one of two volumes and in one of two chapters, or of  *)
(* an element the document does not have, or of a file that is no KEPUB.   *)

FilesMaxRows == 3

FilesDoc ==
    Assemble(<<TplP(KoboId(1), <<"w">>), TplP(KoboId(2), <<"x">>),
               TplP(KoboId(3), <<"y">>)>>, <<1, 2, 3>>, 3)

FilesRow(span, in_chapter, volume_id) ==
    [Row(PathOf("span", KoboId(span)), 0, PathOf("span", KoboId(span)), 1,
         1, in_chapter, "HIGHLIGHT") EXCEPT !.volume_id = volume_id]

FilesRows ==
    {FilesRow(span, in_chapter, TheVolume) :
        span \in 1..3, in_chapter \in Chapters}
    \cup {FilesRow(1, 1, OtherVolume), FilesRow(4, 1, TheVolume),
          FilesRow(1, 1, <<"file:///mnt/onboard/", "notes", ".pdf">>)}

FilesInit ==
    /\ doc = FilesDoc
    /\ rows \in SeqsUpTo(FilesRows, FilesMaxRows)
    /\ InitRest

SpecFiles == FilesInit /\ [][Next]_vars

\* The row was resolved to a context: a pair of some volume holds it
Resolved(row) ==
    \E v \in 1..Len(kepubs) :
        \E j \in 1..Len(kepubs[v].pairs) : kepubs[v].pairs[j].bookmark = row

\* C27: when an output file is open or written every row of every volume
\* is skipped or resolved to a context, and when the resolution of a row
\* has failed no output file is open or written
C27_NoFileBeforeResolution ==
    /\ files # << >> =>
          \A k \in 1..Len(rows) :
              Skipped(rows[k].volume_id) \/ Resolved(rows[k])
    /\ pc = "resolve_failed" => files = << >>

\* Both volumes have their file written and closed, and a row was skipped
C27_Witness ==
    /\ pc = "done"
    /\ Len(files) = 2
    /\ \A f \in 1..Len(files) : files[f].closed
    /\ \E k \in 1..Len(rows) : Skipped(rows[k].volume_id)

\* The chapter of the g-th group of the volume main is at
GroupChapter(g) == grouped_pairs[g].pairs[1].context.chapter

\* C28: in the file of a volume a chapter header stands immediately before
\* the quoted block of a group exactly when the group is the first of the
\* volume or its chapter differs from that of the group written before it
C28_HeaderAtChapterChange ==
    files # << >> =>
        LET ws == files[Len(files)].writes
        IN  \A j \in 1..Len(ws) :
               ws[j].kind = "bookmark" =>
                  LET g == Cardinality({i \in 1..j : ws[i].kind = "bookmark"})
                  IN  (j > 1 /\ ws[j - 1].kind = "new_chapter")
                         <=> (g = 1 \/ GroupChapter(g) # GroupChapter(g - 1))

\* A closed file of three groups, the second in the chapter of the first
\* and the third in another one
C28_Witness ==
    /\ files # << >>
    /\ files[Len(files)].closed
    /\ Len(Blocks(files[Len(files)])) = 3
    /\ Len(grouped_pairs) = 3
    /\ GroupChapter(1) = GroupChapter(2)
    /\ GroupChapter(2) # GroupChapter(3)

====
